---- MODULE Spec2Model ----
(***************************************************************************)
(* Attack-path analysis over a security policy graph.                      *)
(*                                                                         *)
(*   Part I   build_graph, ConditionEvaluator and AttackPathAnalyzer       *)
(*            (src/src/graph/build_graph.py, src/src/analysis/*.py),       *)
(*            specification Spec.                                          *)
(*   Part II  PolicyToZ3Converter and Z3Verifier                           *)
(*            (src/src/verification/z3_verifier.py),                       *)
(*            specification VerifierSpec.                                  *)
(*   Part III ConditionEvaluator on its own                                *)
(*            (src/src/analysis/condition_evaluator.py),                   *)
(*            specification EvaluatorSpec.                                 *)
(*   Part IV  AttackPathAnalyzer.score_path                                *)
(*            (src/src/analysis/find_paths.py),                            *)
(*            specification ScoreSpec.                                     *)
(*   Part V   PathThreatScorer                                             *)
(*            (src/src/threat_scoring/threat_scorer.py),                   *)
(*            specification ThreatSpec.                                    *)
(*   Part VI  AttackPathAnalyzer's metrics and cache                       *)
(*            (src/src/analysis/find_paths.py),                            *)
(*            specification MetricsSpec.                                   *)
(*   Part VII The asynchronous analysis job                                *)
(*            (src/src/api.py, src/src/database.py),                       *)
(*            specification JobSpec.                                       *)
(***************************************************************************)
EXTENDS Integers, Sequences, FiniteSets, TLC

VARIABLES
    firewall_rules,     \* rows of firewall_rules/rules.csv, in file order
    iam_policies,       \* documents of iam_policies/*.json, in load order
    graph,              \* AttackPathAnalyzer.graph (built by build_graph)
    exec_context,       \* AttackPathAnalyzer.context
    max_depth,          \* AttackPathAnalyzer.max_depth
    path_cache,         \* AttackPathAnalyzer._path_cache
    total_paths_found,  \* _metrics["total_paths_found"]
    paths_pruned,       \* _metrics["paths_pruned"]
    evaluation_time,    \* _metrics["evaluation_time"], in clock ticks
    ret,                \* what the last call on the analyzer returned or raised
    req_policies,       \* the `policies` argument of the verification calls
    req_context,        \* the `context` argument of the verification calls
    verifier_converter, \* Z3Verifier.converter
    proof,              \* the last verify_path_exploitability call and its outcome
    batch,              \* the last batch_verify_paths call and its outcome
    cond_context,       \* ConditionEvaluator.context
    cond_ret,           \* the last is_satisfied call and its outcome
    threat_ret,         \* the last PathThreatScorer.score_path call and its outcome
    job,                \* the committed AnalysisJob row of the asynchronous analysis
    attack_paths,       \* the committed AttackPath rows of that job
    task,               \* _run_analysis_background: its position and its locals
    observed            \* what the readers of the job have been answered so far

analyzer_vars == <<firewall_rules, iam_policies, graph, exec_context, max_depth,
                   path_cache, total_paths_found, paths_pruned, evaluation_time, ret>>

verifier_vars == <<req_policies, req_context, verifier_converter, proof, batch>>

evaluator_vars == <<cond_context, cond_ret>>

scorer_vars == <<threat_ret>>

service_vars == <<job, attack_paths, task, observed>>

vars == <<analyzer_vars, verifier_vars, evaluator_vars, scorer_vars, service_vars>>

Range(s) == {s[i] : i \in DOMAIN s}

(***************************************************************************)
(* Python values.  A dict is a function whose domain is its key set; a      *)
(* missing key is dict.get's None.  A str is the sequence of its pieces: a  *)
(* piece is one character, or, in names that are only compared and split,   *)
(* a run of characters without a colon.                                     *)
(***************************************************************************)
None == [kind |-> "none"]
Str(s) == [kind |-> "str", v |-> s]
Dict(f) == [kind |-> "dict", map |-> f]
List(q) == [kind |-> "list", items |-> q]
IntVal(n) == [kind |-> "int", n |-> n]
PyBool(b) == [kind |-> "bool", b |-> b]
EmptyDict == [k \in {} |-> None]

\* Python truthiness of a value: `not x`
Falsy(x) ==
    CASE x.kind = "none" -> TRUE
      [] x.kind = "str" -> x.v = <<>>
      [] x.kind = "list" -> x.items = <<>>
      [] x.kind = "dict" -> DOMAIN x.map = {}
      [] x.kind = "int" -> x.n = 0
      [] x.kind = "bool" -> ~x.b
      [] OTHER -> FALSE

DictGet(d, k) == IF k \in DOMAIN d THEN d[k] ELSE None

\* str.lower() on the strings the model uses
Lower(s) ==
    CASE s = "Allow" -> "allow"
      [] s = "ALLOW" -> "allow"
      [] s = "Deny" -> "deny"
      [] s = "Internal" -> "internal"
      [] s = "True" -> "true"
      [] s = "Role" -> "role"
      [] s = "aws:SourceIp" -> "aws:sourceip"
      [] s = "StringEquals" -> "stringequals"
      [] s = "StringNotEquals" -> "stringnotequals"
      [] s = "StringLike" -> "stringlike"
      [] s = "IpAddress" -> "ipaddress"
      [] s = "NotIpAddress" -> "notipaddress"
      [] s = "NumericGreater" -> "numericgreater"
      [] s = "NumericLess" -> "numericless"
      [] s = "NumericEquals" -> "numericequals"
      [] s = "ArnLike" -> "arnlike"
      [] s = "Bool" -> "bool"
      [] s = "DateAfter" -> "dateafter"
      [] OTHER -> s

\* str.lower() character by character
LowerChar(c) ==
    CASE c = "A" -> "a" [] c = "F" -> "f" [] c = "N" -> "n" [] c = "R" -> "r"
      [] c = "T" -> "t" [] c = "Y" -> "y" [] OTHER -> c
LowerSeq(s) == [i \in DOMAIN s |-> LowerChar(s[i])]

\* the characters of the model in code point order
CodePoints ==
    << "\n", " ", "'", "*", "+", ",", "-", ".", "/",
       "0", "1", "2", "3", "4", "5", "6", "7", "8", "9", ":", "?",
       "A", "F", "N", "R", "T", "Y", "[", "]",
       "a", "b", "c", "d", "e", "f", "l", "n", "o", "r", "s", "t", "u", "x", "y" >>

Ord(c) == CHOOSE i \in DOMAIN CodePoints : CodePoints[i] = c

\* s < t for two strs: the first differing character decides, a proper
\* prefix is smaller
RECURSIVE StrLess(_, _)
StrLess(s, t) ==
    IF t = <<>> THEN FALSE
    ELSE IF s = <<>> THEN TRUE
    ELSE IF Head(s) = Head(t) THEN StrLess(Tail(s), Tail(t))
    ELSE Ord(Head(s)) < Ord(Head(t))

Digits == << "0", "1", "2", "3", "4", "5", "6", "7", "8", "9" >>
DigitValue == [c \in Range(Digits) |-> (CHOOSE i \in DOMAIN Digits : Digits[i] = c) - 1]

\* whether int(s) succeeds, and its value
IsInt(s) == s # <<>> /\ \A i \in DOMAIN s : s[i] \in DOMAIN DigitValue
RECURSIVE IntOf(_)
IntOf(s) == IF s = <<>> THEN 0
            ELSE 10 * IntOf(SubSeq(s, 1, Len(s) - 1)) + DigitValue[s[Len(s)]]

\* str(n) for an int
RECURSIVE DigitsOf(_)
DigitsOf(n) ==
    IF n < 0 THEN <<"-">> \o DigitsOf(0 - n)
    ELSE IF n < 10 THEN <<Digits[n + 1]>>
    ELSE Append(DigitsOf(n \div 10), Digits[(n % 10) + 1])

\* s.replace(c, r) for a one-character c
RECURSIVE Replace(_, _, _)
Replace(s, c, r) ==
    IF s = <<>> THEN <<>>
    ELSE (IF Head(s) = c THEN r ELSE <<Head(s)>>) \o Replace(Tail(s), c, r)

\* s.split(c): the pieces between the occurrences of c
RECURSIVE Split(_, _)
Split(s, c) ==
    IF \A i \in DOMAIN s : s[i] # c THEN <<s>>
    ELSE LET i == CHOOSE k \in DOMAIN s : s[k] = c /\ \A j \in 1 .. (k - 1) : s[j] # c
         IN  <<SubSeq(s, 1, i - 1)>> \o Split(SubSeq(s, i + 1, Len(s)), c)

\* str(x) and, for the elements of a list, repr(x)
RECURSIVE PyStr(_)
PyRepr(x) ==
    IF x.kind = "str" THEN <<"'">> \o x.v \o <<"'">> ELSE PyStr(x)

RECURSIVE JoinReprs(_, _)
JoinReprs(q, i) ==
    IF i > Len(q) THEN <<>>
    ELSE (IF i > 1 THEN <<",", " ">> ELSE <<>>) \o PyRepr(q[i]) \o JoinReprs(q, i + 1)

PyStr(x) ==
    CASE x.kind = "none" -> <<"N", "o", "n", "e">>
      [] x.kind = "str" -> x.v
      [] x.kind = "int" -> DigitsOf(x.n)
      [] x.kind = "bool" -> IF x.b THEN <<"T", "r", "u", "e">>
                                   ELSE <<"F", "a", "l", "s", "e">>
      [] x.kind = "list" -> <<"[">> \o JoinReprs(x.items, 1) \o <<"]">>

\* float(x): the number, or the exception.  The strs of the model that are
\* numerals are runs of digits with an optional sign.
PyFloat(x) ==
    CASE x.kind = "int" -> [raised |-> "none", v |-> x.n]
      [] x.kind = "bool" -> [raised |-> "none", v |-> IF x.b THEN 1 ELSE 0]
      [] x.kind = "str" ->
             IF IsInt(x.v) THEN [raised |-> "none", v |-> IntOf(x.v)]
             ELSE IF x.v # <<>> /\ Head(x.v) = "-" /\ IsInt(Tail(x.v))
             THEN [raised |-> "none", v |-> 0 - IntOf(Tail(x.v))]
             ELSE [raised |-> "ValueError", v |-> 0]
      [] OTHER -> [raised |-> "TypeError", v |-> 0]

(***************************************************************************)
(* re.match(f"^{pattern}$", s) for the patterns the evaluator builds: an    *)
(* item is a literal character, an escaped character or `.`, followed or    *)
(* not by `*` or `+`.  A `*` or `+` with nothing before it is re.error.      *)
(***************************************************************************)
Quantifiers == {"*", "+"}

\* the items of a pattern; the item of a `*` or `+` that repeats nothing is
\* marked re.error and ends the list
RECURSIVE RegexItems(_)
RegexItems(p) ==
    IF p = <<>> THEN <<>>
    ELSE IF Head(p) \in Quantifiers
    THEN <<[atom |-> [any |-> FALSE, c |-> Head(p)], q |-> "re.error"]>>
    ELSE LET escaped == Head(p) = "\\" /\ Len(p) > 1
             atom == IF escaped THEN [any |-> FALSE, c |-> p[2]]
                     ELSE IF Head(p) = "." THEN [any |-> TRUE, c |-> "."]
                     ELSE [any |-> FALSE, c |-> Head(p)]
             rest == IF escaped THEN Tail(Tail(p)) ELSE Tail(p)
             quantified == rest # <<>> /\ Head(rest) \in Quantifiers
         IN  <<[atom |-> atom, q |-> IF quantified THEN Head(rest) ELSE "1"]>>
             \o RegexItems(IF quantified THEN Tail(rest) ELSE rest)

RegexError(items) == \E i \in DOMAIN items : items[i].q = "re.error"

\* `.` matches every character but the newline
AtomMatches(atom, c) == IF atom.any THEN c # "\n" ELSE atom.c = c

\* whether items i.. match s from position j to `$`: the end of s, or just
\* before a newline that ends s.  `more` is set inside a repetition.
RECURSIVE RegexMatch(_, _, _, _, _)
RegexMatch(items, i, s, j, more) ==
    IF i > Len(items)
    THEN j = Len(s) + 1 \/ (j = Len(s) /\ s[j] = "\n")
    ELSE LET here == j <= Len(s) /\ AtomMatches(items[i].atom, s[j])
         IN  IF more \/ items[i].q = "*"
             THEN \/ RegexMatch(items, i + 1, s, j, FALSE)
                  \/ here /\ RegexMatch(items, i, s, j + 1, TRUE)
             ELSE IF items[i].q = "+"
             THEN here /\ RegexMatch(items, i, s, j + 1, TRUE)
             ELSE here /\ RegexMatch(items, i + 1, s, j + 1, FALSE)

\* re.match: True, False, or the exception re.compile raises
ReMatch(pattern, s) ==
    IF RegexError(RegexItems(pattern)) THEN [raised |-> "re.error", value |-> FALSE]
    ELSE [raised |-> "none", value |-> RegexMatch(RegexItems(pattern), 1, s, 1, FALSE)]

(***************************************************************************)
(* ipaddress.ip_address and ipaddress.ip_network(strict=False) on dotted    *)
(* quads: four decimal octets, and a prefix length after the slash.         *)
(***************************************************************************)
IsOctet(s) == IsInt(s) /\ Len(s) <= 3 /\ IntOf(s) <= 255

\* whether ip_address(s) succeeds (ValueError otherwise)
IsIpAddress(s) ==
    LET parts == Split(s, ".")
    IN  Len(parts) = 4 /\ \A i \in 1 .. 4 : IsOctet(parts[i])

Octets(s) == [i \in 1 .. 4 |-> IntOf(Split(s, ".")[i])]

\* whether ip_network(s, strict=False) succeeds
IsIpNetwork(s) ==
    LET parts == Split(s, "/")
    IN  /\ Len(parts) = 2
        /\ IsIpAddress(parts[1])
        /\ IsInt(parts[2]) /\ Len(parts[2]) <= 2 /\ IntOf(parts[2]) <= 32

Pow2(n) == CASE n = 0 -> 1 [] n = 1 -> 2 [] n = 2 -> 4 [] n = 3 -> 8 [] n = 4 -> 16
             [] n = 5 -> 32 [] n = 6 -> 64 [] n = 7 -> 128 [] OTHER -> 256

\* context_ip in network: the leading prefix-length bits agree
InNetwork(ip, network) ==
    LET parts == Split(network, "/")
        prefix == IntOf(parts[2])
        host(i) == IF prefix >= 8 * i THEN 0
                   ELSE IF prefix <= 8 * (i - 1) THEN 8
                   ELSE 8 * i - prefix
    IN  \A i \in 1 .. 4 :
            Octets(ip)[i] \div Pow2(host(i)) = Octets(parts[1])[i] \div Pow2(host(i))

(***************************************************************************)
(* ConditionEvaluator (condition_evaluator.py).  A condition is None or a   *)
(* dict from condition keys to expected values.  An operator returns True   *)
(* or False or raises: [raised, value].                                     *)
(***************************************************************************)
Returns(b) == [raised |-> "none", value |-> b]
Raises(e) == [raised |-> e, value |-> FALSE]

\* `not f(...)`: the exception of f, or the negation of what it returns
PyNot(r) == IF r.raised # "none" THEN r ELSE Returns(~r.value)

\* policy_val if isinstance(policy_val, list) else [policy_val]
AsList(policy_val) == IF policy_val.kind = "list" THEN policy_val.items ELSE <<policy_val>>

_string_equals(context_val, policy_val) ==
    IF context_val = None THEN FALSE
    ELSE IF policy_val.kind = "list"
         THEN \E i \in DOMAIN policy_val.items : PyStr(policy_val.items[i]) = PyStr(context_val)
         ELSE PyStr(context_val) = PyStr(policy_val)

_string_equals_ignore_case(context_val, policy_val) ==
    IF context_val = None THEN FALSE
    ELSE IF policy_val.kind = "list"
         THEN \E i \in DOMAIN policy_val.items :
                  LowerSeq(PyStr(policy_val.items[i])) = LowerSeq(PyStr(context_val))
         ELSE LowerSeq(PyStr(context_val)) = LowerSeq(PyStr(policy_val))

\* the loop of _string_like and _arn_like from value i on: the first value
\* whose pattern matches returns True, a pattern that does not compile raises
RECURSIVE MatchAny(_, _, _, _)
MatchAny(values, i, context_str, escape_dot) ==
    IF i > Len(values) THEN Returns(FALSE)
    ELSE LET dotted == IF escape_dot THEN Replace(PyStr(values[i]), ".", <<"\\", ".">>)
                       ELSE PyStr(values[i])
             pattern == Replace(Replace(dotted, "*", <<".", "*">>), "?", <<".">>)
             m == ReMatch(pattern, context_str)
         IN  IF m.raised # "none" THEN m
             ELSE IF m.value THEN Returns(TRUE)
             ELSE MatchAny(values, i + 1, context_str, escape_dot)

_string_like(context_val, policy_val) ==
    IF context_val = None THEN Returns(FALSE)
    ELSE MatchAny(AsList(policy_val), 1, PyStr(context_val), TRUE)

_arn_like(context_val, policy_val) ==
    IF context_val = None THEN Returns(FALSE)
    ELSE MatchAny(AsList(policy_val), 1, PyStr(context_val), FALSE)

_ip_address_match(context_val, policy_val) ==
    IF context_val = None THEN FALSE
    ELSE IF ~IsIpAddress(PyStr(context_val)) THEN FALSE
    ELSE \E i \in DOMAIN AsList(policy_val) :
             LET val == PyStr(AsList(policy_val)[i])
             IN  IF "/" \in Range(val)
                 THEN IsIpNetwork(val) /\ InNetwork(PyStr(context_val), val)
                 ELSE IsIpAddress(val) /\ Octets(PyStr(context_val)) = Octets(val)

_numeric_equals(context_val, policy_val) ==
    IF PyFloat(context_val).raised # "none" THEN FALSE
    ELSE IF policy_val.kind = "list"
         THEN /\ \A i \in DOMAIN policy_val.items : PyFloat(policy_val.items[i]).raised = "none"
              /\ \E i \in DOMAIN policy_val.items :
                     PyFloat(policy_val.items[i]).v = PyFloat(context_val).v
         ELSE /\ PyFloat(policy_val).raised = "none"
              /\ PyFloat(context_val).v = PyFloat(policy_val).v

_numeric_greater_than(context_val, policy_val, equals) ==
    /\ PyFloat(context_val).raised = "none"
    /\ PyFloat(policy_val).raised = "none"
    /\ IF equals THEN PyFloat(context_val).v >= PyFloat(policy_val).v
       ELSE PyFloat(context_val).v > PyFloat(policy_val).v

_numeric_less_than(context_val, policy_val, equals) ==
    /\ PyFloat(context_val).raised = "none"
    /\ PyFloat(policy_val).raised = "none"
    /\ IF equals THEN PyFloat(context_val).v <= PyFloat(policy_val).v
       ELSE PyFloat(context_val).v < PyFloat(policy_val).v

_date_greater_than(context_val, policy_val) ==
    StrLess(PyStr(policy_val), PyStr(context_val))

_date_less_than(context_val, policy_val) ==
    StrLess(PyStr(context_val), PyStr(policy_val))

BoolWords == { <<"t", "r", "u", "e">>, <<"1">>, <<"y", "e", "s">> }

_bool_equals(context_val, policy_val) ==
    LET context_bool == LowerSeq(PyStr(context_val)) \in BoolWords
        policy_bool == LowerSeq(PyStr(policy_val)) \in BoolWords
    IN  context_bool = policy_bool

\* the final else branch of _apply_operator returning True
UnknownOperator_FailOpen == Returns(TRUE)

\* the final else branch of _apply_operator
UnknownOperator == Returns(FALSE)

_apply_operator(operator, context_val, policy_val) ==
    CASE operator = <<"StringEquals">> -> Returns(_string_equals(context_val, policy_val))
      [] operator = <<"StringNotEquals">> ->
             Returns(~_string_equals(context_val, policy_val))
      [] operator = <<"StringEqualsIgnoreCase">> ->
             Returns(_string_equals_ignore_case(context_val, policy_val))
      [] operator = <<"StringLike">> -> _string_like(context_val, policy_val)
      [] operator = <<"StringNotLike">> -> PyNot(_string_like(context_val, policy_val))
      [] operator = <<"IpAddress">> -> Returns(_ip_address_match(context_val, policy_val))
      [] operator = <<"NotIpAddress">> ->
             Returns(~_ip_address_match(context_val, policy_val))
      [] operator = <<"NumericEquals">> -> Returns(_numeric_equals(context_val, policy_val))
      [] operator = <<"NumericNotEquals">> ->
             Returns(~_numeric_equals(context_val, policy_val))
      [] operator = <<"NumericGreaterThan">> ->
             Returns(_numeric_greater_than(context_val, policy_val, FALSE))
      [] operator = <<"NumericGreaterThanEquals">> ->
             Returns(_numeric_greater_than(context_val, policy_val, TRUE))
      [] operator = <<"NumericLessThan">> ->
             Returns(_numeric_less_than(context_val, policy_val, FALSE))
      [] operator = <<"NumericLessThanEquals">> ->
             Returns(_numeric_less_than(context_val, policy_val, TRUE))
      [] operator = <<"NumericDateGreaterThan">> ->
             Returns(_date_greater_than(context_val, policy_val))
      [] operator = <<"NumericDateLessThan">> ->
             Returns(_date_less_than(context_val, policy_val))
      [] operator = <<"ArnLike">> -> _arn_like(context_val, policy_val)
      [] operator = <<"ArnNotLike">> -> PyNot(_arn_like(context_val, policy_val))
      [] operator = <<"Bool">> -> Returns(_bool_equals(context_val, policy_val))
      [] OTHER -> UnknownOperator

\* the try block of _evaluate_condition_key: key.split raises for a key that
\* is not a str
KeyBody(context, key, value) ==
    IF key.kind # "str" THEN Raises("AttributeError")
    ELSE LET parts == Split(key.v, ":")
         IN  IF Len(parts) = 2
             THEN _apply_operator(parts[1], DictGet(context, parts[2]), value)
             ELSE IF Len(parts) = 1
             THEN _apply_operator(<<"StringEquals">>, DictGet(context, parts[1]), value)
             ELSE Returns(FALSE)

\* the try block without its except clause
Caught_Propagates(r) == r

\* except Exception: return False
Caught(r) == IF r.raised # "none" THEN Returns(FALSE) ELSE r

_evaluate_condition_key(context, key, value) == Caught(KeyBody(context, key, value))

\* the loop over condition.items() returning at the first key that holds
KeysHold_Any(context, condition) ==
    \E key \in DOMAIN condition.map :
        _evaluate_condition_key(context, key, condition.map[key]).value

\* the loop over condition.items(): False at the first key that fails
KeysHold(context, condition) ==
    \A key \in DOMAIN condition.map :
        _evaluate_condition_key(context, key, condition.map[key]).value

\* the exception that leaves the loop, if any
KeysRaise(context, condition) ==
    LET raising == { key \in DOMAIN condition.map :
                       _evaluate_condition_key(context, key, condition.map[key]).raised
                           # "none" }
    IN  IF raising = {} THEN "none"
        ELSE _evaluate_condition_key(context, CHOOSE key \in raising : TRUE,
                                     condition.map[CHOOSE key \in raising : TRUE]).raised

is_satisfied(context, condition) ==
    IF Falsy(condition) THEN Returns(TRUE)
    ELSE IF condition.kind # "dict" THEN Returns(FALSE)
    ELSE IF KeysRaise(context, condition) # "none"
    THEN Raises(KeysRaise(context, condition))
    ELSE Returns(KeysHold(context, condition))

(***************************************************************************)
(* build_graph (build_graph.py).  The graph is a networkx DiGraph: one      *)
(* attribute dict per ordered pair; add_edge on a pair that already has an  *)
(* edge updates that dict in place, and a node's successors keep the order  *)
(* in which their edges were first added.                                   *)
(***************************************************************************)
Assets == {"internet", "web", "db"}
Ghost == "ghost"                       \* a name no asset, rule or policy has
Names == Assets \cup {Ghost}

\* `criticality` holds the "criticality" attribute of the nodes that have one
EmptyGraph == [nodes |-> {}, adj |-> [n \in Names |-> <<>>],
               edges |-> [e \in {} |-> None],
               criticality |-> [n \in {} |-> "normal"]]

\* DiGraph.add_node(n, criticality=...)
add_node(G, n, criticality) ==
    [G EXCEPT !.nodes = @ \cup {n},
              !.criticality = (n :> criticality) @@ @]

\* DiGraph.add_edge(u, v, **attr)
add_edge(G, u, v, attr) ==
    LET e == <<u, v>>
        old == IF e \in DOMAIN G.edges THEN G.edges[e] ELSE EmptyDict
    IN  [nodes |-> G.nodes \cup {u, v},
         adj |-> IF e \in DOMAIN G.edges THEN G.adj
                 ELSE [G.adj EXCEPT ![u] = Append(@, v)],
         edges |-> (e :> (attr @@ old)) @@ G.edges,
         criticality |-> G.criticality]

get_edge_data(G, u, v) == IF <<u, v>> \in DOMAIN G.edges THEN G.edges[<<u, v>>] ELSE None

RECURSIVE AddNetworkEdges(_, _, _)
AddNetworkEdges(G, rules, i) ==
    IF i > Len(rules) THEN G
    ELSE LET rule == rules[i]
         IN  AddNetworkEdges(
                 IF Lower(rule.action) = "allow"
                 THEN add_edge(G, rule.source, rule.destination,
                               [type |-> "network", rule_name |-> rule.rule_name])
                 ELSE G,
                 rules, i + 1)

RECURSIVE AddIamEdges(_, _, _)
AddIamEdges(G, policies, i) ==
    IF i > Len(policies) THEN G
    ELSE LET policy == policies[i]
         IN  AddIamEdges(
                 IF Lower(policy.Effect) = "allow"
                 THEN add_edge(G, policy.Principal, policy.Resource,
                               [type |-> "iam", action |-> policy.Action,
                                condition |-> policy.Condition])
                 ELSE G,
                 policies, i + 1)

RECURSIVE AddAssets(_, _)
AddAssets(G, assets) ==
    IF assets = {} THEN G
    ELSE LET a == CHOOSE a \in assets : TRUE
         IN  AddAssets(add_node(G, a, "normal"), assets \ {a})

build_graph(rules, policies) ==
    AddIamEdges(AddNetworkEdges(AddAssets(EmptyGraph, Assets), rules, 1), policies, 1)

(***************************************************************************)
(* AttackPathAnalyzer (find_paths.py)                                       *)
(***************************************************************************)
\* networkx.all_simple_paths for one target: depth-first over the successors
\* in adjacency order; a path ends at the target, and at most `left` more
\* edges are taken from the last node of `visited`.
RECURSIVE SimplePathsFrom(_, _, _, _, _)
SimplePathsFrom(G, visited, target, left, i) ==
    LET children == G.adj[visited[Len(visited)]]
    IN  IF left < 1 \/ i > Len(children) THEN <<>>
        ELSE LET child == children[i]
                 here == IF child \in Range(visited) THEN <<>>
                         ELSE IF child = target THEN <<Append(visited, child)>>
                         ELSE SimplePathsFrom(G, Append(visited, child), target, left - 1, 1)
             IN  here \o SimplePathsFrom(G, visited, target, left, i + 1)

\* For source = target the networkx releases differ: the older ones yield
\* nothing, the newer ones the one-node path.  `trivial` is that choice.
all_simple_paths(G, source, target, cutoff, trivial) ==
    IF source = target THEN (IF trivial THEN <<<<source>>>> ELSE <<>>)
    ELSE SimplePathsFrom(G, <<source>>, target, cutoff, 1)

\* StepValid without the IAM branch: an existing edge always passes
StepValid_IgnoresCondition(G, context, src, dst) ==
    get_edge_data(G, src, dst) # None

\* one step of _is_path_valid's loop
StepValid(G, context, src, dst) ==
    LET edge_data == get_edge_data(G, src, dst)
    IN  IF edge_data = None THEN FALSE
        ELSE IF edge_data.type = "iam"
             THEN is_satisfied(context, edge_data.condition).value
             ELSE TRUE

_is_path_valid(G, context, path) ==
    \A i \in 1..(Len(path) - 1) : StepValid(G, context, path[i], path[i + 1])

\* NodeCheck without the target check
NodeCheck_SourceOnly(G, source, target) ==
    IF source \notin G.nodes THEN "ValueError" ELSE "none"

\* The node checks of find_attack_paths: the exception raised, or "none".
NodeCheck(G, source, target) ==
    IF source \notin G.nodes THEN "ValueError"
    ELSE IF target \notin G.nodes THEN "ValueError"
    ELSE "none"

\* CacheLookup that never finds the key
CacheLookup_AlwaysMiss(cache, cache_key, use_cache) == FALSE

\* Whether the call is answered from the cache.
CacheLookup(cache, cache_key, use_cache) == use_cache /\ cache_key \in DOMAIN cache

\* The paths that pass _is_path_valid, in discovery order, and how many do not
ValidPaths(self, all_paths) ==
    LET Valid(p) == _is_path_valid(self.graph, self.context, p)
    IN  [valid_paths |-> SelectSeq(all_paths, Valid),
         pruned |-> Len(all_paths) - Len(SelectSeq(all_paths, Valid))]

\* a variant of Enumerated that stores the result whatever use_cache is
Enumerated_AlwaysStores(self, call, cache_key, use_cache, found, elapsed) ==
    [self |-> [self EXCEPT
         !.paths_pruned = @ + found.pruned,
         !.total_paths_found = @ + Len(found.valid_paths),
         !.evaluation_time = @ + elapsed,
         !.path_cache = (cache_key :> found.valid_paths) @@ @],
     ret |-> call @@ [raised |-> "none", cache_hit |-> FALSE,
                      paths |-> found.valid_paths, rejected |-> found.pruned]]

\* The end of find_attack_paths after the enumeration: the counters, the
\* cache entry and the value returned
Enumerated(self, call, cache_key, use_cache, found, elapsed) ==
    [self |-> [self EXCEPT
         !.paths_pruned = @ + found.pruned,
         !.total_paths_found = @ + Len(found.valid_paths),
         !.evaluation_time = @ + elapsed,
         !.path_cache = IF use_cache
                        THEN (cache_key :> found.valid_paths) @@ @
                        ELSE @],
     ret |-> call @@ [raised |-> "none", cache_hit |-> FALSE,
                      paths |-> found.valid_paths, rejected |-> found.pruned]]

\* The body of find_attack_paths: the analyzer's fields after the call and
\* what the call returned or raised.  `elapsed` is time.time() - start_time
\* at the end of the enumeration.
find_attack_paths(self, source, target, use_cache, trivial, elapsed) ==
    LET cache_key == <<source, target>>
        call == [op |-> "find", source |-> source, target |-> target,
                 use_cache |-> use_cache]
    IN  IF CacheLookup(self.path_cache, cache_key, use_cache)
        THEN [self |-> self,
              ret |-> call @@ [raised |-> "none", cache_hit |-> TRUE,
                               paths |-> self.path_cache[cache_key], rejected |-> 0]]
        ELSE IF NodeCheck(self.graph, source, target) # "none"
        THEN [self |-> self,
              ret |-> call @@ [raised |-> NodeCheck(self.graph, source, target),
                               cache_hit |-> FALSE, paths |-> <<>>, rejected |-> 0]]
        ELSE Enumerated(self, call, cache_key, use_cache,
                        ValidPaths(self, all_simple_paths(self.graph, source, target,
                                                          self.max_depth, trivial)),
                        elapsed)

EmptyCache == [k \in {} |-> <<>>]

\* a variant of clear_cache that also resets the cumulative counters
clear_cache_ResetsMetrics(self) ==
    [self EXCEPT !.path_cache = EmptyCache, !.total_paths_found = 0,
                 !.paths_pruned = 0, !.evaluation_time = 0]

clear_cache(self) == [self EXCEPT !.path_cache = EmptyCache]

\* get_metrics: the counters and the number of cache entries
get_metrics(self) ==
    [total_paths_found |-> self.total_paths_found,
     paths_pruned |-> self.paths_pruned,
     evaluation_time |-> self.evaluation_time,
     cache_size |-> Cardinality(DOMAIN self.path_cache)]

\* The scores are floats with integral values (10.0 plus integers); they are
\* kept as integers here.
\* path_length_score that grows with the length of the path
path_length_score_Growing(path) ==
    IF (Len(path) - 2) * 3 < 25 THEN (Len(path) - 2) * 3 ELSE 25

\* path_length_score = max(0, 25 - (len(path) - 2) * 3)
path_length_score(path) ==
    IF 25 - (Len(path) - 2) * 3 > 0 THEN 25 - (Len(path) - 2) * 3 ELSE 0

\* self.graph.nodes.get(target, {}).get("criticality", "normal")
TargetCriticality(G, target) ==
    IF target \in G.nodes /\ target \in DOMAIN G.criticality
    THEN G.criticality[target]
    ELSE "normal"

\* the points added for the criticality of the target
CriticalityScore(criticality) ==
    CASE criticality = "critical" -> 40
      [] criticality = "high" -> 30
      [] criticality = "medium" -> 15
      [] OTHER -> 0

\* The loop over the steps of the path, from step i on: the counters, and the
\* exception raised by edge_data.get on a step that has no edge.
RECURSIVE CountSteps(_, _, _, _)
CountSteps(G, path, i, counts) ==
    IF i > Len(path) - 1 THEN counts
    ELSE LET edge_data == get_edge_data(G, path[i], path[i + 1])
         IN  IF edge_data = None THEN [counts EXCEPT !.raised = "AttributeError"]
             ELSE IF "type" \in DOMAIN edge_data /\ edge_data.type = "iam"
             THEN CountSteps(G, path, i + 1,
                      [counts EXCEPT
                          !.iam_count = @ + 1,
                          !.conditions_bypassed =
                              IF /\ "condition" \in DOMAIN edge_data
                                 /\ ~Falsy(edge_data.condition)
                              THEN @ + 1 ELSE @])
             ELSE IF "type" \in DOMAIN edge_data /\ edge_data.type = "network"
             THEN CountSteps(G, path, i + 1, [counts EXCEPT !.network_count = @ + 1])
             ELSE CountSteps(G, path, i + 1, counts)

\* Normalize that returns the score as it is
Normalize_Unclamped(score) == score

\* min(100.0, score)
Normalize(score) == IF score < 100 THEN score ELSE 100

\* The body of score_path: the exception raised, or "none" and the score.
score_path(self, path) ==
    IF Len(path) < 2 THEN [raised |-> "none", score |-> 0]
    ELSE LET counts == CountSteps(self.graph, path, 1,
                           [raised |-> "none", iam_count |-> 0, network_count |-> 0,
                            conditions_bypassed |-> 0])
             criticality == TargetCriticality(self.graph, path[Len(path)])
         IN  IF counts.raised # "none" THEN [raised |-> counts.raised, score |-> 0]
             ELSE [raised |-> "none",
                   score |-> Normalize(10 + path_length_score(path)
                                       + CriticalityScore(criticality)
                                       + counts.iam_count * 5
                                       + counts.conditions_bypassed * 3)]

\* The analyzer object read from and written to the state variables.
Self == [graph |-> graph, context |-> exec_context, max_depth |-> max_depth,
         path_cache |-> path_cache, total_paths_found |-> total_paths_found,
         paths_pruned |-> paths_pruned, evaluation_time |-> evaluation_time]

StoreFields(self) ==
    /\ path_cache' = self.path_cache
    /\ total_paths_found' = self.total_paths_found
    /\ paths_pruned' = self.paths_pruned
    /\ evaluation_time' = self.evaluation_time
    /\ UNCHANGED <<firewall_rules, iam_policies, graph, exec_context, max_depth>>

Store(self) ==
    /\ StoreFields(self)
    /\ UNCHANGED <<verifier_vars, evaluator_vars, scorer_vars, service_vars>>

(***************************************************************************)
(* Inputs                                                                   *)
(***************************************************************************)
MaxPolicies == 1     \* IAM policy documents loaded
MaxCounter == 2      \* calls are made while the two counters sum to at most this

DefaultMaxDepth == 5

Rule(action, s, d, name) ==
    [action |-> action, source |-> s, destination |-> d, rule_name |-> name]

R1 == Rule("allow", "internet", "web", "r1")
R2 == Rule("ALLOW", "web", "db", "r2")
R3 == Rule("allow", "internet", "db", "r3")
R4 == Rule("deny", "web", "db", "r4")

FirewallChoices ==
    { <<>>, <<R1, R2>>, <<R1, R4>>, <<R1, R2, R3>>, <<R3, R1, R2>>, <<R4, R1, R3>> }

Policy(effect, p, r, cond) ==
    [Effect |-> effect, Principal |-> p, Resource |-> r, Action |-> "s3:GetObject",
     Condition |-> cond]

Internal == Str(<<"i", "n", "t", "e", "r", "n", "a", "l">>)

CondInternal == Dict(Str(<<"StringEquals", ":", "source_ip">>) :> Internal)
CondBare == Dict(Str(<<"source_ip">>) :> Internal)
CondUnknownOp == Dict(Str(<<"DateAfter", ":", "source_ip">>) :> Internal)

PolicyChoices ==
    { Policy("Allow", "web", "db", None),
      Policy("Allow", "web", "db", CondInternal),
      Policy("Allow", "internet", "db", CondBare),
      Policy("Allow", "internet", "web", CondUnknownOp),
      Policy("Deny", "internet", "db", None) }

ContextChoices == { EmptyDict, <<"source_ip">> :> Internal }

\* the (source, target) pairs the analyzer is asked about
QueryChoices ==
    { <<"internet", "db">>, <<"web", "db">>, <<"db", "db">>,
      <<Ghost, "db">>, <<"internet", Ghost>> }

\* the sequences over S of length at most n
RECURSIVE SeqsUpTo(_, _)
SeqsUpTo(S, n) ==
    IF n = 0 THEN {<<>>}
    ELSE LET shorter == SeqsUpTo(S, n - 1)
         IN  shorter \cup {Append(s, x) : s \in shorter, x \in S}

NoCall == [op |-> "init"]

InitAnalyzer ==
    /\ firewall_rules \in FirewallChoices
    /\ iam_policies \in SeqsUpTo(PolicyChoices, MaxPolicies)
    /\ graph = build_graph(firewall_rules, iam_policies)
    /\ exec_context \in ContextChoices
    /\ max_depth \in {1, DefaultMaxDepth}
    /\ path_cache = EmptyCache
    /\ total_paths_found = 0
    /\ paths_pruned = 0
    /\ evaluation_time = 0
    /\ ret = NoCall

\* the verifier, unused
IdleVerifier ==
    /\ req_policies = <<>>
    /\ req_context = EmptyDict
    /\ verifier_converter = [assertions |-> <<>>, context |-> {}, constraints |-> <<>>]
    /\ proof = NoCall
    /\ batch = NoCall

\* the evaluator on its own, unused
IdleEvaluator ==
    /\ cond_context = EmptyDict
    /\ cond_ret = NoCall

\* the threat scorer, unused
IdleScorer == threat_ret = NoCall

\* the analysis service, with no asynchronous job
IdleService ==
    /\ job = None
    /\ attack_paths = <<>>
    /\ task = [pc |-> "none"]
    /\ observed = [pc |-> "idle"]

Init == InitAnalyzer /\ IdleVerifier /\ IdleEvaluator /\ IdleScorer /\ IdleService

\* the analyzer and the returned value after find_attack_paths
StoreFind(r) ==
    /\ Store(r.self)
    /\ ret' = r.ret

FindAttackPaths(source, target, use_cache, trivial, elapsed) ==
    /\ total_paths_found + paths_pruned <= MaxCounter
    /\ trivial => source = target
    /\ StoreFind(find_attack_paths(Self, source, target, use_cache, trivial, elapsed))

\* clear_cache(); `dropped` records how many entries the cache held
ClearCache ==
    /\ Store(clear_cache(Self))
    /\ ret' = [op |-> "clear", dropped |-> Cardinality(DOMAIN path_cache)]

Next ==
    \/ \E q \in QueryChoices, use_cache \in BOOLEAN, trivial \in BOOLEAN :
           FindAttackPaths(q[1], q[2], use_cache, trivial, 0)
    \/ ClearCache

Spec == Init /\ [][Next]_vars

(***************************************************************************)
(* Properties of the analyzer, checked under Spec                           *)
(***************************************************************************)
FindReturned == ret.op = "find" /\ ret.raised = "none"
FreshFind == FindReturned /\ ~ret.cache_hit

Injective(p) == \A i, j \in DOMAIN p : p[i] = p[j] => i = j

\* the simple directed paths of G from s to t with at least one and at most d edges
SimplePaths(G, s, t, d) ==
    { p \in UNION { [1..n -> G.nodes] : n \in 2..Cardinality(G.nodes) } :
        /\ p[1] = s /\ p[Len(p)] = t
        /\ Injective(p)
        /\ Len(p) - 1 <= d
        /\ \A i \in 1..(Len(p) - 1) : <<p[i], p[i + 1]>> \in DOMAIN G.edges }

\* the edge of the step is not IAM-typed, or its condition holds in the context
EdgePasses(G, context, u, v) ==
    LET e == G.edges[<<u, v>>]
    IN  e.type # "iam" \/ is_satisfied(context, e.condition).value

Accepted(G, context, p) == \A i \in 1..(Len(p) - 1) : EdgePasses(G, context, p[i], p[i + 1])

\* C1: a call that misses the cache and finds both nodes returns, without
\* repetition, exactly the simple paths from source to target of at most
\* max_depth edges whose every step passes (edge not IAM-typed, or IAM-typed
\* with a condition the context satisfies), and rejects all the others; for
\* source = target it returns at most the one-node path.
C1_ReturnsExactlyTheValidSimplePaths ==
    FreshFind =>
        LET all == SimplePaths(graph, ret.source, ret.target, max_depth)
            good == { p \in all : Accepted(graph, exec_context, p) }
        IN  IF ret.source = ret.target
            THEN ret.paths \in {<<>>, <<<<ret.source>>>>} /\ ret.rejected = 0
            ELSE /\ Range(ret.paths) = good
                 /\ Injective(ret.paths)
                 /\ ret.rejected = Cardinality(all \ good)

C1_Witness ==
    /\ FreshFind /\ ret.source # ret.target
    /\ ret.paths # <<>> /\ ret.rejected > 0
    /\ \E i \in DOMAIN ret.paths : Len(ret.paths[i]) = 3

AllowRuleFor(u, v) ==
    \E i \in DOMAIN firewall_rules :
        /\ Lower(firewall_rules[i].action) = "allow"
        /\ firewall_rules[i].source = u /\ firewall_rules[i].destination = v

AllowPolicyFor(u, v) ==
    \E i \in DOMAIN iam_policies :
        /\ Lower(iam_policies[i].Effect) = "allow"
        /\ iam_policies[i].Principal = u /\ iam_policies[i].Resource = v

\* C2: when the pair (source, target) has both a Network edge and an IAM
\* edge, the Network edge makes the one-step path valid whatever the IAM
\* edge's condition: a fresh search returns the path <<source, target>>.
C2_NetworkEdgeKeepsStepValid ==
    (/\ FreshFind /\ ret.source # ret.target
     /\ AllowRuleFor(ret.source, ret.target)
     /\ AllowPolicyFor(ret.source, ret.target))
        => <<ret.source, ret.target>> \in Range(ret.paths)

\* C3: find_attack_paths raises ValueError exactly when the source or the
\* target is not a node of the graph (each on its own suffices); such a call
\* enumerates nothing and caches nothing.
C3_NodeNotFound ==
    /\ ret.op = "find" =>
          /\ ret.raised = "ValueError"
                <=> (ret.source \notin graph.nodes \/ ret.target \notin graph.nodes)
          /\ ret.raised = "ValueError" => ret.paths = <<>> /\ ret.rejected = 0
    /\ \A k \in DOMAIN path_cache : k[1] \in graph.nodes /\ k[2] \in graph.nodes

C3_Witness ==
    /\ ret.op = "find" /\ ret.raised = "ValueError"
    /\ ret.source \in graph.nodes /\ ret.target \notin graph.nodes
    /\ total_paths_found > 0

\* C4: once find_attack_paths(s, t, use_cache = true) has succeeded, every
\* later find_attack_paths(s, t, use_cache = true) returns the same ordered
\* list and leaves paths_pruned and total_paths_found as they are; only
\* clear_cache removes or changes a cache entry.
C4_CachedResultStaysInForce ==
    [][ /\ ret'.op # "clear" =>
              \A k \in DOMAIN path_cache :
                  k \in DOMAIN path_cache' /\ path_cache'[k] = path_cache[k]
        /\ (ret'.op = "find" /\ ret'.raised = "none" /\ ret'.use_cache) =>
              /\ <<ret'.source, ret'.target>> \in DOMAIN path_cache'
              /\ path_cache'[<<ret'.source, ret'.target>>] = ret'.paths
        /\ (/\ ret'.op = "find" /\ ret'.use_cache
            /\ <<ret'.source, ret'.target>> \in DOMAIN path_cache) =>
              /\ ret'.raised = "none"
              /\ ret'.paths = path_cache[<<ret'.source, ret'.target>>]
              /\ total_paths_found' = total_paths_found
              /\ paths_pruned' = paths_pruned
      ]_vars

C4_Witness ==
    /\ FindReturned /\ ret.cache_hit
    /\ ret.paths # <<>> /\ paths_pruned > 0 /\ total_paths_found > 0

(***************************************************************************)
(* Part II.  PolicyToZ3Converter and Z3Verifier (z3_verifier.py).           *)
(*                                                                         *)
(* A condition value and a string context value are sequences of           *)
(* characters.  A z3 constant is its name with its sort.  A z3 boolean       *)
(* expression built by condition_to_constraint is a disjunction of atoms,   *)
(* possibly negated; a solver assertion is a conjunction of those, possibly *)
(* negated.                                                                 *)
(***************************************************************************)
String(name) == <<name, "String">>          \* z3.String(name)
IntConst(name) == <<name, "Int">>           \* z3.Int(name)

\* the literal of an atom is a string for a String constant, a number for an
\* Int constant
Atom(op, var, val) ==
    IF var[2] = "Int" THEN [op |-> op, var |-> var, num |-> val]
    ELSE [op |-> op, var |-> var, val |-> val]
Or(atoms) == [neg |-> FALSE, any |-> atoms]         \* z3.Or(*atoms)
NotOr(atoms) == [neg |-> TRUE, any |-> atoms]       \* z3.Not(z3.Or(*atoms))
BoolVal(b) == [neg |-> b, any |-> {}]               \* z3.BoolVal(b)
And(constraint_list) == [neg |-> FALSE, all |-> constraint_list]
NotAnd(constraint_list) == [neg |-> TRUE, all |-> constraint_list]
NoConstraint == [kind |-> "none"]                   \* condition_to_constraint's None

\* s.split(c)[0]
RECURSIVE SplitFirst(_, _)
SplitFirst(s, c) ==
    IF s = <<>> \/ Head(s) = c THEN <<>> ELSE <<Head(s)>> \o SplitFirst(Tail(s), c)

IsPrefix(p, s) == Len(p) <= Len(s) /\ SubSeq(s, 1, Len(p)) = p

TrueWords == { <<"t", "r", "u", "e">>, <<"1">> }

KnownOperators ==
    { "stringequals", "stringlike", "ipaddress", "stringnotequals", "notipaddress",
      "numericgreater", "numericless", "numericequals", "arnlike", "bool" }

\* PolicyToZ3Converter()
NewConverter == [assertions |-> <<>>, context |-> {}, constraints |-> <<>>]

\* the unknown-operator branch, compiled to a constant-false constraint
UnknownOperatorConstraint_FailClosed == BoolVal(FALSE)

\* the else branch of condition_to_constraint: warn and return None
UnknownOperatorConstraint == NoConstraint

\* the pattern branch shared by stringlike (wild = {"*", "?"}) and arnlike
\* (wild = {"*"})
PatternAtom(var, pattern, wild) ==
    IF Range(pattern) \cap wild # {}
    THEN Atom("prefix", var,
              IF "*" \in Range(pattern) THEN SplitFirst(pattern, "*") ELSE pattern)
    ELSE Atom("eq", var, pattern)

CidrAtom(cidr) ==
    Atom("prefix", String("source_ip"),
         IF "/" \in Range(cidr) THEN SplitFirst(cidr, "/") ELSE cidr)

\* condition_to_constraint: the z3 expression (or NoConstraint), or the
\* exception int() raises
condition_to_constraint(condition) ==
    LET operator == Lower(condition.operator)
        key == Lower(condition.key)
        values == condition.values
        var == String(key)
        Ok(c) == [raised |-> "none", constraint |-> c]
        Numeric(op) ==
            IF values # <<>> /\ ~IsInt(values[1])
            THEN [raised |-> "ValueError", constraint |-> NoConstraint]
            ELSE Ok(Or({Atom(op, IntConst(key),
                             IF values # <<>> THEN IntOf(values[1]) ELSE 0)}))
    IN  CASE operator = "stringequals" ->
                 Ok(Or({Atom("eq", var, values[i]) : i \in DOMAIN values}))
          [] operator = "stringlike" ->
                 Ok(Or({PatternAtom(var, values[i], {"*", "?"}) : i \in DOMAIN values}))
          [] operator = "ipaddress" ->
                 IF key = "aws:sourceip"
                 THEN Ok(Or({CidrAtom(values[i]) : i \in DOMAIN values}))
                 ELSE Ok(NoConstraint)
          [] operator = "stringnotequals" ->
                 Ok(NotOr({Atom("eq", var, values[i]) : i \in DOMAIN values}))
          [] operator = "notipaddress" ->
                 IF key = "aws:sourceip"
                 THEN Ok(NotOr({CidrAtom(values[i]) : i \in DOMAIN values}))
                 ELSE Ok(NoConstraint)
          [] operator = "numericgreater" -> Numeric("gt")
          [] operator = "numericless" -> Numeric("lt")
          [] operator = "numericequals" -> Numeric("ieq")
          [] operator = "arnlike" ->
                 Ok(Or({PatternAtom(var, values[i], {"*"}) : i \in DOMAIN values}))
          [] operator = "bool" ->
                 Ok(BoolVal(values # <<>> /\ LowerSeq(values[1]) \in TrueWords))
          [] OTHER -> Ok(UnknownOperatorConstraint)

\* The loop over one statement's conditions, from condition i on: the
\* converter with self.context and self.constraints updated, the
\* constraint_list so far, and the exception if one was raised.
\* CompileStep is one pass of the loop body, given what
\* condition_to_constraint gave for condition i.
RECURSIVE CompileConditions(_, _, _, _)
CompileStep(conv, conditions, i, constraint_list, r) ==
    IF r.raised # "none"
    THEN [raised |-> r.raised, conv |-> conv, constraint_list |-> constraint_list]
    ELSE IF r.constraint = NoConstraint
    THEN CompileConditions(conv, conditions, i + 1, constraint_list)
    ELSE CompileConditions(
             [conv EXCEPT !.constraints = Append(@, <<conditions[i].key, r.constraint>>)],
             conditions, i + 1, Append(constraint_list, r.constraint))

CompileConditions(conv, conditions, i, constraint_list) ==
    IF i > Len(conditions)
    THEN [raised |-> "none", conv |-> conv, constraint_list |-> constraint_list]
    ELSE CompileStep([conv EXCEPT !.context = @ \cup {Lower(conditions[i].key)}],
                     conditions, i, constraint_list,
                     condition_to_constraint(conditions[i]))

\* What add_policy_constraints hands to solver.add for one statement: at
\* most one expression.
StatementClause(statement_effect, constraint_list) ==
    IF statement_effect = "ALLOW" /\ constraint_list # <<>>
    THEN <<And(constraint_list)>>
    ELSE IF statement_effect = "DENY" /\ constraint_list # <<>>
    THEN <<NotAnd(constraint_list)>>
    ELSE <<>>

Upper(s) == CASE s = "Allow" -> "ALLOW" [] s = "allow" -> "ALLOW"
              [] s = "Deny" -> "DENY" [] s = "deny" -> "DENY" [] OTHER -> s

\* add_policy_constraints from statement i on; AddStatement is the end of
\* the loop body, given the statement's compiled conditions c.
RECURSIVE add_policy_constraints(_, _, _)
AddStatement(policies, i, c) ==
    IF c.raised # "none" THEN [raised |-> c.raised, conv |-> c.conv]
    ELSE add_policy_constraints(
             [c.conv EXCEPT !.assertions =
                  @ \o StatementClause(Upper(policies[i].effect), c.constraint_list)],
             policies, i + 1)

add_policy_constraints(conv, policies, i) ==
    IF i > Len(policies) THEN [raised |-> "none", conv |-> conv]
    ELSE AddStatement(policies, i,
                      CompileConditions(conv, policies[i].conditions, 1, <<>>))

\* the z3 constant add_execution_context makes for a context key
ContextConstant(key, sort) == <<key, sort>>

\* add_execution_context: one equality per str or int value, keys in any
\* order (the assertions are a conjunction)
ContextEquality(key, value) ==
    CASE value.kind = "str" ->
             <<And(<<Or({Atom("eq", ContextConstant(key, "String"), value.v)})>>)>>
      [] value.kind = "int" ->
             <<And(<<Or({Atom("ieq", ContextConstant(key, "Int"), value.n)})>>)>>
      [] OTHER -> <<>>

RECURSIVE add_execution_context(_, _, _)
AddContextKey(conv, context, keys, key) ==
    add_execution_context(
        [conv EXCEPT !.assertions = @ \o ContextEquality(key, context[key])],
        context, keys \ {key})

add_execution_context(conv, context, keys) ==
    IF keys = {} THEN conv
    ELSE AddContextKey(conv, context, keys, CHOOSE k \in keys : TRUE)

(***************************************************************************)
(* The solver.  check() decides the assertions over the strings and the     *)
(* integers.  Every atom constrains one constant against one literal, so a  *)
(* satisfying assignment exists iff one exists whose strings are literals   *)
(* of the assertions or such a literal (or the empty string) followed by a  *)
(* character no literal contains, and whose integers are within one of a    *)
(* literal.                                                                 *)
(***************************************************************************)
FreshChar == "~"

AtomsOfConstraint(c) == c.any
AtomsOfAssertion(a) == UNION { AtomsOfConstraint(a.all[i]) : i \in DOMAIN a.all }
AtomsOf(assertions) == UNION { AtomsOfAssertion(assertions[i]) : i \in DOMAIN assertions }

StringConstants(assertions) == { a.var : a \in { x \in AtomsOf(assertions) : x.var[2] = "String" } }
IntConstants(assertions) == { a.var : a \in { x \in AtomsOf(assertions) : x.var[2] = "Int" } }

StringUniverse(assertions) ==
    LET lits == { a.val : a \in { x \in AtomsOf(assertions) : x.var[2] = "String" } }
    IN  lits \cup { Append(l, FreshChar) : l \in lits \cup {<<>>} }

IntUniverse(assertions) ==
    LET lits == { a.num : a \in { x \in AtomsOf(assertions) : x.var[2] = "Int" } }
    IN  {0} \cup lits \cup { l + 1 : l \in lits } \cup { l - 1 : l \in lits }

\* an interpretation: a value for every string constant and every int constant
Interpretations(assertions) ==
    [str : [StringConstants(assertions) -> StringUniverse(assertions)],
     int : [IntConstants(assertions) -> IntUniverse(assertions)]]

AtomHolds(a, m) ==
    CASE a.op = "eq" -> m.str[a.var] = a.val
      [] a.op = "prefix" -> IsPrefix(a.val, m.str[a.var])
      [] a.op = "ieq" -> m.int[a.var] = a.num
      [] a.op = "gt" -> m.int[a.var] > a.num
      [] a.op = "lt" -> m.int[a.var] < a.num

ConstraintHolds(c, m) == c.neg # (\E a \in c.any : AtomHolds(a, m))
AssertionHolds(a, m) == a.neg # (\A i \in DOMAIN a.all : ConstraintHolds(a.all[i], m))
Satisfies(m, assertions) == \A i \in DOMAIN assertions : AssertionHolds(assertions[i], m)

Satisfiable(assertions) == \E m \in Interpretations(assertions) : Satisfies(m, assertions)

\* solver.check() and solver.model(): `answers` is whether the solver reaches
\* a verdict within its timeout.  The model is one satisfying interpretation
\* of the constants the assertions mention.
SolverOutcome(answers, models) ==
    IF ~answers THEN [result |-> "unknown", model |-> None]
    ELSE IF models # {}
    THEN [result |-> "sat", model |-> Dict(CHOOSE m \in models : TRUE)]
    ELSE [result |-> "unsat", model |-> None]

SolverCheck(assertions, answers) ==
    SolverOutcome(answers,
                  IF answers
                  THEN { m \in Interpretations(assertions) : Satisfies(m, assertions) }
                  ELSE {})

\* verify_satisfiable: (is_sat, model) with is_sat one of True, False, None
IsSatOf(r) ==
    IF r.result = "sat" THEN [is_sat |-> "True", model |-> r.model]
    ELSE IF r.result = "unsat" THEN [is_sat |-> "False", model |-> None]
    ELSE [is_sat |-> "None", model |-> None]

verify_satisfiable(conv, answers) == IsSatOf(SolverCheck(conv.assertions, answers))

\* len(model) == 0: `if model` is false for a model without constants
ModelIsEmpty(model) ==
    model = None \/ (DOMAIN model.map.str = {} /\ DOMAIN model.map.int = {})

(***************************************************************************)
(* Z3Verifier                                                               *)
(***************************************************************************)
DefaultTimeoutMs == 5000

\* solver.set("timeout", timeout_ms): z3 rejects a value that is not an
\* unsigned integer
SolverSet(timeout_ms) == IF timeout_ms.kind = "int" THEN "none" ELSE "Z3Exception"

Names2(conv) == [i \in DOMAIN conv.constraints |-> conv.constraints[i][1]]

\* the verdict branch taking every non-sat outcome as unsat
Verdict_UnknownAsBlocked(is_sat) ==
    IF is_sat = "True" THEN "exploitable" ELSE "blocked"

\* the if / elif / else over is_sat in verify_path_exploitability
Verdict(is_sat) ==
    IF is_sat = "True" THEN "exploitable"
    ELSE IF is_sat = "False" THEN "blocked"
    ELSE "unknown"

ProofResult(result, path, satisfied, n, model, counterexample, explanation, used) ==
    [result |-> result, path |-> path, constraints_satisfied |-> satisfied,
     num_constraints |-> n, model |-> model, counterexample |-> counterexample,
     explanation |-> explanation, constraints_used |-> used]

\* the converter a call works on taken from the verifier instead of made anew
ConverterRef_Shared == "self.converter"

\* line 276: the converter a call works on is a new PolicyToZ3Converter
ConverterRef == "new"

\* What a call hands back: what it returns or raises, the converter it
\* worked on, and the verifier's converter field afterwards.
Done(self_converter, raised, result, conv) ==
    [raised |-> raised, proof |-> result, converter |-> conv,
     self_converter |-> IF ConverterRef = "new" THEN self_converter ELSE conv]

\* the three return statements of the try block, given (is_sat, model)
Package(self_converter, path, conv, s, verdict) ==
    Done(self_converter, "none",
         CASE verdict = "exploitable" ->
                  ProofResult("exploitable", path, "True", Len(conv.constraints),
                              IF ModelIsEmpty(s.model) THEN None ELSE s.model,
                              None, "exploitable", List(Names2(conv)))
           [] verdict = "blocked" ->
                  ProofResult("blocked", path, "False", Len(conv.constraints), None,
                              Str("All constraints unsatisfiable"), "blocked",
                              List(Names2(conv)))
           [] OTHER ->
                  ProofResult("unknown", path, "None", Len(conv.constraints), None, None,
                              "unknown", List(Names2(conv))),
         conv)

\* a variant of Solve that blocks every path of more than two nodes
Solve_ByPathLength(self_converter, path, conv, s) ==
    Package(self_converter, path, conv, s,
            IF Len(path) > 2 THEN "blocked" ELSE Verdict(s.is_sat))

Solve(self_converter, path, conv, s) ==
    Package(self_converter, path, conv, s, Verdict(s.is_sat))

\* the try block after add_policy_constraints gave p; the except branch
\* returns UNKNOWN with num_constraints = 0 and the error as explanation
AfterPolicies(self_converter, path, p, context, conv, answers) ==
    IF p.raised # "none"
    THEN Done(self_converter, "none",
              ProofResult("unknown", path, "None", 0, None, None, "error", None),
              p.conv)
    ELSE Solve(self_converter, path, conv, verify_satisfiable(conv, answers))

WithContext(self_converter, path, p, context, answers) ==
    AfterPolicies(self_converter, path, p, context,
                  IF p.raised # "none" THEN p.conv
                  ELSE add_execution_context(p.conv, context, DOMAIN context),
                  answers)

Started(self_converter, converter, path, policies, context, timeout_ms, answers) ==
    IF SolverSet(timeout_ms) # "none"
    THEN Done(self_converter, SolverSet(timeout_ms), None, converter)
    ELSE WithContext(self_converter, path,
                     add_policy_constraints(converter, policies, 1), context, answers)

\* verify_path_exploitability on a verifier whose converter field is
\* self_converter
verify_path_exploitability(self_converter, path, policies, context, timeout_ms, answers) ==
    Started(self_converter,
            IF ConverterRef = "new" THEN NewConverter ELSE self_converter,
            path, policies, context, timeout_ms, answers)

\* batch_verify_paths from path i on: the results appended in order, each
\* call made with the default timeout
RECURSIVE batch_verify_paths(_, _, _, _, _, _, _)
BatchStep(paths, policies, context, answers, i, results, r) ==
    batch_verify_paths(r.self_converter, paths, policies, context, answers,
                       i + 1, Append(results, r.proof))

batch_verify_paths(self_converter, paths, policies, context, answers, i, results) ==
    IF i > Len(paths) THEN [results |-> results, self_converter |-> self_converter]
    ELSE BatchStep(paths, policies, context, answers, i, results,
                   verify_path_exploitability(self_converter, paths[i], policies, context,
                                              IntVal(DefaultTimeoutMs), answers[i]))

(***************************************************************************)
(* Inputs of the verifier and its specification                             *)
(***************************************************************************)
MaxStatements == 2   \* statements in the policy list

Condition(operator, key, values) ==
    [operator |-> operator, key |-> key, values |-> values]
Statement(effect, conditions) == [effect |-> effect, conditions |-> conditions]

A == <<"a">>
B == <<"b">>

StatementChoices ==
    { Statement("Allow", <<>>),
      Statement("Allow", <<Condition("StringEquals", "Role", <<A>>)>>),
      Statement("allow", <<Condition("StringEquals", "role", <<A>>),
                           Condition("DateAfter", "role", <<B>>)>>),
      Statement("Allow", <<Condition("StringLike", "role", <<<<"b", "*">>>>),
                           Condition("NumericGreater", "port", <<<<"1">>>>)>>),
      Statement("Allow", <<Condition("NumericEquals", "port", <<<<"x">>>>)>>),
      Statement("Deny", <<>>),
      Statement("Deny", <<Condition("Bool", "flag", <<<<"T", "r", "u", "e">>>>)>>) }

VerifierContextChoices ==
    { EmptyDict,
      [Role |-> Str(B)],
      [role |-> Str(<<"b", "a">>), port |-> IntVal(2)] }

P1 == <<"internet", "db">>
P2 == <<"internet", "web", "db">>
PathChoices == { P1, P2 }
BatchChoices == { <<>>, <<P1>>, <<P2, P1>> }

TimeoutChoices == { IntVal(DefaultTimeoutMs), None }

\* the analyzer, unused
IdleAnalyzer ==
    /\ firewall_rules = <<>>
    /\ iam_policies = <<>>
    /\ graph = build_graph(firewall_rules, iam_policies)
    /\ exec_context = EmptyDict
    /\ max_depth = DefaultMaxDepth
    /\ path_cache = EmptyCache
    /\ total_paths_found = 0
    /\ paths_pruned = 0
    /\ evaluation_time = 0
    /\ ret = NoCall

VerifierInit ==
    /\ IdleScorer
    /\ IdleService
    /\ IdleAnalyzer
    /\ IdleEvaluator
    /\ req_policies \in SeqsUpTo(StatementChoices, MaxStatements)
    /\ req_context \in VerifierContextChoices
    /\ verifier_converter = NewConverter
    /\ proof = NoCall
    /\ batch = NoCall

VerifyPathExploitability(path, timeout_ms, answers) ==
    \* the solver is not consulted when solver.set raises
    /\ SolverSet(timeout_ms) # "none" => answers
    /\ LET r == verify_path_exploitability(verifier_converter, path, req_policies,
                                        req_context, timeout_ms, answers)
       IN  /\ verifier_converter' = r.self_converter
           /\ proof' = [op |-> "verify", path |-> path, timeout_ms |-> timeout_ms,
                        answers |-> answers, raised |-> r.raised, result |-> r.proof,
                        converter |-> r.converter]
           /\ batch' = NoCall
           /\ UNCHANGED <<req_policies, req_context>>
           /\ UNCHANGED <<analyzer_vars, evaluator_vars, scorer_vars, service_vars>>

BatchVerifyPaths(paths, answers) ==
    LET r == batch_verify_paths(verifier_converter, paths, req_policies, req_context,
                                answers, 1, <<>>)
    IN  /\ verifier_converter' = r.self_converter
        /\ batch' = [op |-> "batch", paths |-> paths, answers |-> answers,
                     results |-> r.results]
        /\ proof' = NoCall
        /\ UNCHANGED <<req_policies, req_context>>
        /\ UNCHANGED <<analyzer_vars, evaluator_vars, scorer_vars, service_vars>>

VerifierNext ==
    \/ \E path \in PathChoices, timeout_ms \in TimeoutChoices, answers \in BOOLEAN :
           VerifyPathExploitability(path, timeout_ms, answers)
    \/ \E paths \in BatchChoices :
           \E answers \in [DOMAIN paths -> BOOLEAN] :
               BatchVerifyPaths(paths, answers)

VerifierSpec == VerifierInit /\ [][VerifierNext]_vars

(***************************************************************************)
(* Properties of the verifier                                               *)
(***************************************************************************)
\* a call of verify_path_exploitability that returned from its try block
VerifyReturned ==
    proof.op = "verify" /\ proof.raised = "none" /\ proof.result.explanation # "error"

\* a verdict was reached by a solver that answered
VerifyAnswered == VerifyReturned /\ proof.answers

ConstantsOf(assertions) == StringConstants(assertions) \cup IntConstants(assertions)

\* C5: verify_path_exploitability returns Exploitable exactly when the
\* conjunction of the statement clauses and the context equalities is
\* satisfiable, with a model that satisfies it (None when it names no
\* constant); Blocked, without a model, exactly when it is unsatisfiable;
\* Unknown exactly when the solver gives no verdict.  Allow statements without
\* conditions and an empty context give Exploitable with num_constraints = 0.
C5_VerdictFollowsSatisfiability ==
    VerifyReturned =>
        LET r == proof.result
            asserted == proof.converter.assertions
        IN  /\ r.result = "exploitable" <=> (proof.answers /\ Satisfiable(asserted))
            /\ r.result = "blocked" <=> (proof.answers /\ ~Satisfiable(asserted))
            /\ r.result = "unknown" <=> ~proof.answers
            /\ r.result # "exploitable" => r.model = None
            /\ (r.result = "exploitable" /\ r.model # None) =>
                   Satisfies(r.model.map, asserted)
            /\ (r.result = "exploitable" /\ r.model = None) => ConstantsOf(asserted) = {}
            /\ (/\ proof.answers
                /\ DOMAIN req_context = {}
                /\ \A i \in DOMAIN req_policies :
                       /\ Upper(req_policies[i].effect) = "ALLOW"
                       /\ req_policies[i].conditions = <<>>) =>
                   r.result = "exploitable" /\ r.num_constraints = 0

C5_Witness ==
    /\ VerifyAnswered
    /\ proof.result.result = "exploitable"
    /\ proof.result.model # None
    /\ proof.result.num_constraints > 1
    /\ DOMAIN req_context # {}

\* a Bool condition naming a true word: a trigger that holds whatever the
\* context is
HoldsTrivially(condition) ==
    /\ Lower(condition.operator) = "bool"
    /\ condition.values # <<>>
    /\ LowerSeq(condition.values[1]) \in TrueWords

\* C6: when the policy list holds a Deny statement whose conditions all hold
\* trivially (one without conditions included), the verdict is Blocked.
C6_DenyThatHoldsBlocks ==
    (/\ VerifyAnswered
     /\ \E i \in DOMAIN req_policies :
            /\ Upper(req_policies[i].effect) = "DENY"
            /\ \A j \in DOMAIN req_policies[i].conditions :
                   HoldsTrivially(req_policies[i].conditions[j]))
        => proof.result.result = "blocked"

\* C7: when an Allow statement requires StringEquals on a key the context
\* binds to a string outside the condition's values, the verdict is Blocked,
\* however the key is spelled.
C7_ContextBindsConditionVariable ==
    (/\ VerifyAnswered
     /\ \E i \in DOMAIN req_policies :
            /\ Upper(req_policies[i].effect) = "ALLOW"
            /\ \E j \in DOMAIN req_policies[i].conditions :
                   LET c == req_policies[i].conditions[j]
                   IN  /\ Lower(c.operator) = "stringequals"
                       /\ c.key \in DOMAIN req_context
                       /\ req_context[c.key].kind = "str"
                       /\ req_context[c.key].v \notin Range(c.values))
        => proof.result.result = "blocked"

\* C8: verify_path_exploitability never raises, whatever timeout_ms is.
C8_VerifyNeverRaises ==
    proof.op = "verify" => proof.raised = "none"

\* the policy list with condition j of statement i removed
WithoutCondition(policies, i, j) ==
    [policies EXCEPT ![i].conditions =
         [k \in 1 .. (Len(@) - 1) |-> IF k < j THEN @[k] ELSE @[k + 1]]]

\* C9: for every condition whose operator condition_to_constraint does not
\* know, the call returns what it returns for the policy list without that
\* condition: the same verdict, the same num_constraints, the same
\* constraints_used.
C9_UnknownOperatorContributesNothing ==
    (proof.op = "verify" /\ proof.raised = "none") =>
        \A i \in DOMAIN req_policies :
            \A j \in DOMAIN req_policies[i].conditions :
                Lower(req_policies[i].conditions[j].operator) \notin KnownOperators =>
                    proof.result =
                        verify_path_exploitability(
                            NewConverter, proof.path,
                            WithoutCondition(req_policies, i, j), req_context,
                            proof.timeout_ms, proof.answers).proof

C9_Witness ==
    /\ VerifyAnswered
    /\ \E i \in DOMAIN req_policies :
           \E j \in DOMAIN req_policies[i].conditions :
               /\ Lower(req_policies[i].conditions[j].operator) \notin KnownOperators
               /\ Len(req_policies[i].conditions) > 1
    /\ proof.result.result = "exploitable"
    /\ proof.result.num_constraints = 1

\* C10: batch_verify_paths returns one result per path, in order, result i
\* carrying paths[i] and equal to what verify_path_exploitability returns for
\* paths[i] on a new verifier; the verifier's own converter is never written.
C10_BatchIsPathwiseAndFresh ==
    /\ verifier_converter = NewConverter
    /\ batch.op = "batch" =>
          /\ Len(batch.results) = Len(batch.paths)
          /\ \A i \in DOMAIN batch.paths :
                 /\ batch.results[i].path = batch.paths[i]
                 /\ batch.results[i] =
                        verify_path_exploitability(
                            NewConverter, batch.paths[i], req_policies, req_context,
                            IntVal(DefaultTimeoutMs), batch.answers[i]).proof

C10_Witness ==
    /\ batch.op = "batch"
    /\ Len(batch.paths) = 2
    /\ batch.results[1].result = "unknown"
    /\ batch.results[2].result = "blocked"
    /\ batch.results[1].num_constraints > 0

\* what a ProofResult says beyond the path it carries
SameVerdict(r1, r2) ==
    /\ r1.result = r2.result
    /\ r1.num_constraints = r2.num_constraints
    /\ r1.constraints_used = r2.constraints_used

\* C27: the verdict of verify_path_exploitability depends only on the policy
\* list and the context, never on the path: the same call on any other path
\* (the solver behaving alike) returns the same result tag, num_constraints
\* and constraints_used, or raises alike, and the paths of one
\* batch_verify_paths call receive the same verdict.
C27_VerdictIgnoresThePath ==
    /\ proof.op = "verify" =>
          \A other \in PathChoices \cup {<<>>, <<"db">>} :
              LET r == verify_path_exploitability(verifier_converter, other, req_policies,
                           req_context, proof.timeout_ms, proof.answers)
              IN  /\ r.raised = proof.raised
                  /\ proof.raised = "none" =>
                         /\ SameVerdict(r.proof, proof.result)
                         /\ r.proof.path = other
    /\ batch.op = "batch" =>
          \A i, j \in DOMAIN batch.results :
              batch.answers[i] = batch.answers[j] =>
                  SameVerdict(batch.results[i], batch.results[j])

\* a batch of two different paths, the solver answering for both, with one
\* verdict reached over a constraint
C27_Witness ==
    /\ batch.op = "batch"
    /\ Len(batch.paths) = 2 /\ batch.paths[1] # batch.paths[2]
    /\ batch.answers[1] /\ batch.answers[2]
    /\ batch.results[1].result = "blocked"
    /\ batch.results[2].result = "blocked"
    /\ batch.results[1].num_constraints > 0

(***************************************************************************)
(* Part III.  ConditionEvaluator on its own: specification EvaluatorSpec.   *)
(* An evaluator is built over a context and is_satisfied is called on it    *)
(* with a condition.                                                        *)
(***************************************************************************)
MaxKeys == 2     \* keys in a condition built from KeyValueChoices

K == <<"k">>     \* the context key the contexts bind
M == <<"m">>     \* a context key no context binds

\* the values a context binds k to
ContextValueChoices ==
    { None,
      Str(<<"a", "a", "c">>), Str(<<"a", "+", "c">>), Str(<<"a", "x", "c">>),
      Str(<<"a", "c", "\n">>),
      Str(<<"1", "0", ".", "0", ".", "0", ".", "5">>),
      IntVal(5), Str(<<"5">>),
      Str(<<"T", "r", "u", "e">>), PyBool(FALSE),
      Str(<<"2", "0", "2", "4">>) }

EvaluatorContextChoices == { EmptyDict } \cup { K :> v : v \in ContextValueChoices }

SupportedOperators ==
    { "StringEquals", "StringNotEquals", "StringEqualsIgnoreCase", "StringLike",
      "StringNotLike", "IpAddress", "NotIpAddress", "NumericEquals",
      "NumericNotEquals", "NumericGreaterThan", "NumericGreaterThanEquals",
      "NumericLessThan", "NumericLessThanEquals", "NumericDateGreaterThan",
      "NumericDateLessThan", "ArnLike", "ArnNotLike", "Bool" }

\* operator names _apply_operator does not know
UnknownOperators == { "Foo", "stringequals", "DateGreaterThan" }

ConditionKeyChoices ==
    { Str(<<op, ":">> \o field) : op \in SupportedOperators \cup UnknownOperators,
                                  field \in {K, M} }
    \cup { Str(K), Str(M),
           Str(<<"StringEquals", ":">> \o K \o <<":">> \o K),
           Str(<<"StringEquals", ":", ":">> \o K),
           IntVal(5) }

ScalarChoices ==
    { Str(<<"a", "*", "c">>), Str(<<"a", "+", "c">>), Str(<<"a", ".", "c">>),
      Str(<<"a", "?", "c">>), Str(<<"+", "a">>), Str(<<"a", "c">>),
      Str(<<"1", "0", ".", "0", ".", "0", ".", "0", "/", "8">>),
      Str(<<"1", "0", ".", "0", ".", "0", ".", "5">>),
      Str(<<"1", "0", ".", "0", ".", "0", ".", "0", "/", "x">>),
      IntVal(5), Str(<<"3">>), Str(<<"x">>),
      Str(<<"t", "r", "u", "e">>), PyBool(FALSE),
      Str(<<"2", "0", "2", "3">>) }

ListChoices ==
    { List(<<>>),
      List(<<Str(<<"x">>), Str(<<"a", "*", "c">>)>>),
      List(<<Str(<<"+", "a">>), Str(<<"a", "*", "c">>)>>),
      List(<<IntVal(3)>>),
      List(<<IntVal(5), Str(<<"x">>)>>),
      List(<<Str(<<"t", "r", "u", "e">>)>>),
      List(<<Str(<<"2", "0", "2", "3">>)>>),
      List(<<Str(<<"1", "0", ".", "0", ".", "0", ".", "0", "/", "x">>),
             Str(<<"1", "0", ".", "0", ".", "0", ".", "0", "/", "8">>)>>) }

PolicyValueChoices == ScalarChoices \cup ListChoices

\* the key/value pairs the conditions of several keys are made of
KeyValueChoices ==
    { <<Str(<<"StringEquals", ":">> \o K), Str(<<"5">>)>>,
      <<Str(<<"NumericGreaterThan", ":">> \o K), IntVal(3)>>,
      <<Str(<<"StringLike", ":">> \o K), Str(<<"a", "*", "c">>)>>,
      <<Str(<<"Foo", ":">> \o K), Str(<<"5">>)>>,
      <<Str(<<"StringNotLike", ":">> \o K), Str(<<"+", "a">>)>> }

ConditionOf(pairs) ==
    Dict([key \in { kv[1] : kv \in pairs } |->
              (CHOOSE kv \in pairs : kv[1] = key)[2]])

ConditionChoices ==
    \* what is not a mapping, and the empty mapping
    { None, Dict(EmptyDict), Str(<<>>), Str(<<"a">>), IntVal(0), IntVal(5),
      List(<<>>), List(<<Str(<<"a">>)>>), PyBool(TRUE), PyBool(FALSE) }
    \* one key
    \cup { Dict(key :> value) : key \in ConditionKeyChoices, value \in PolicyValueChoices }
    \* several keys
    \cup { ConditionOf(pairs) :
               pairs \in { q \in SUBSET KeyValueChoices :
                               Cardinality(q) > 1 /\ Cardinality(q) <= MaxKeys } }

\* an evaluator over a context, and the condition it is about to be asked
EvaluatorInit ==
    /\ IdleScorer
    /\ IdleService
    /\ IdleAnalyzer
    /\ IdleVerifier
    /\ cond_context \in EvaluatorContextChoices
    /\ cond_ret \in { [op |-> "pending", condition |-> c] : c \in ConditionChoices }

\* ConditionEvaluator(context).is_satisfied(condition)
IsSatisfied ==
    /\ cond_ret.op = "pending"
    /\ cond_ret' = [op |-> "is_satisfied", condition |-> cond_ret.condition,
                    raised |-> is_satisfied(cond_context, cond_ret.condition).raised,
                    value |-> is_satisfied(cond_context, cond_ret.condition).value,
                    context |-> cond_context]
    /\ UNCHANGED cond_context
    /\ UNCHANGED <<analyzer_vars, verifier_vars, scorer_vars, service_vars>>

EvaluatorNext == IsSatisfied

EvaluatorSpec == EvaluatorInit /\ [][EvaluatorNext]_vars

(***************************************************************************)
(* Properties of the evaluator                                              *)
(***************************************************************************)
\* is_satisfied was called on a mapping with at least one key
CalledOnMapping ==
    /\ cond_ret.op = "is_satisfied"
    /\ cond_ret.condition.kind = "dict"
    /\ DOMAIN cond_ret.condition.map # {}

\* is_satisfied was called on a mapping with the one key `key`
CalledOnKey(key) == CalledOnMapping /\ DOMAIN cond_ret.condition.map = {key}

\* what is_satisfied returns for the condition {key: value}
HoldsAlone(key, value) == is_satisfied(cond_context, Dict(key :> value)).value

\* the parts of a str key, the operator it names and the context key it reads
Parts(key) == Split(key.v, ":")
OperatorOf(key) == IF Len(Parts(key)) = 2 THEN Parts(key)[1] ELSE <<"StringEquals">>
FieldOf(key) == Parts(key)[Len(Parts(key))]
Supported(key) ==
    /\ key.kind = "str"
    /\ Len(Parts(key)) <= 2
    /\ \E op \in SupportedOperators : OperatorOf(key) = <<op>>
Uses(key, ops) == Supported(key) /\ \E op \in ops : OperatorOf(key) = <<op>>

PositiveOperators ==
    { "StringEquals", "StringEqualsIgnoreCase", "StringLike", "IpAddress",
      "NumericEquals", "NumericGreaterThan", "NumericGreaterThanEquals",
      "NumericLessThan", "NumericLessThanEquals", "NumericDateGreaterThan",
      "NumericDateLessThan", "ArnLike", "Bool" }

NumericOperators ==
    { "NumericEquals", "NumericNotEquals", "NumericGreaterThan",
      "NumericGreaterThanEquals", "NumericLessThan", "NumericLessThanEquals" }

\* C11: is_satisfied on a mapping returns true iff every key, taken as a
\* condition of its own, holds; on None and on the empty mapping it returns
\* true, whatever the context.
C11_EveryKeyMustHold ==
    /\ CalledOnMapping =>
           cond_ret.value =
               (\A key \in DOMAIN cond_ret.condition.map :
                    HoldsAlone(key, cond_ret.condition.map[key]))
    /\ (/\ cond_ret.op = "is_satisfied"
        /\ cond_ret.condition \in {None, Dict(EmptyDict)}) => cond_ret.value

C11_Witness ==
    /\ CalledOnMapping
    /\ ~cond_ret.value
    /\ Cardinality(DOMAIN cond_ret.condition.map) = 2
    /\ \E key \in DOMAIN cond_ret.condition.map : HoldsAlone(key, cond_ret.condition.map[key])
    /\ \E key \in DOMAIN cond_ret.condition.map : ~HoldsAlone(key, cond_ret.condition.map[key])

\* C12: is_satisfied returns false for every condition that is neither a
\* mapping nor None.
C12_NonMappingIsFalse ==
    (/\ cond_ret.op = "is_satisfied"
     /\ cond_ret.condition.kind \notin {"dict", "none"}) => ~cond_ret.value

\* a str key whose operator _apply_operator does not know, or with more than
\* one colon
Unresolvable(key) ==
    /\ key.kind = "str"
    /\ \/ Len(Parts(key)) > 2
       \/ Len(Parts(key)) = 2 /\ \A op \in SupportedOperators : Parts(key)[1] # <<op>>

\* C13: a condition with a key whose operator is not supported, or with more
\* than one colon, is false whatever the context and the expected value are.
C13_UnresolvableKeyFails ==
    (/\ CalledOnMapping
     /\ \E key \in DOMAIN cond_ret.condition.map : Unresolvable(key)) => ~cond_ret.value

\* an unknown operator on a context value equal to the expected value
C13_Witness ==
    /\ CalledOnKey(Str(<<"Foo", ":">> \o K))
    /\ K \in DOMAIN cond_context
    /\ cond_context[K] = cond_ret.condition.map[Str(<<"Foo", ":">> \o K)]
    /\ ~cond_ret.value

\* C14: a condition with a supported key whose context key is missing or
\* bound to None is false.
C14_MissingContextFails ==
    (/\ CalledOnMapping
     /\ \E key \in DOMAIN cond_ret.condition.map :
            Supported(key) /\ DictGet(cond_context, FieldOf(key)) = None)
        => ~cond_ret.value

\* C15: IpAddress and NotIpAddress are false when the context value is not
\* an IP address; every Numeric operator is false when the context value or
\* the expected value is not a number.
C15_MalformedInputFails ==
    \A key \in (IF CalledOnMapping THEN DOMAIN cond_ret.condition.map ELSE {}) :
        LET context_val == DictGet(cond_context, FieldOf(key))
            policy_val == cond_ret.condition.map[key]
        IN  /\ (/\ Uses(key, {"IpAddress", "NotIpAddress"})
                /\ context_val # None
                /\ ~IsIpAddress(PyStr(context_val))) => ~cond_ret.value
            /\ (/\ Uses(key, NumericOperators)
                /\ context_val # None
                /\ \/ PyFloat(context_val).raised # "none"
                   \/ policy_val.kind # "list" /\ PyFloat(policy_val).raised # "none")
                   => ~cond_ret.value

\* C16: a positive operator on a list of expected values holds iff it holds
\* on at least one element of the list.
C16_ListMeansAnyElement ==
    \A key \in (IF CalledOnMapping THEN DOMAIN cond_ret.condition.map ELSE {}) :
        (/\ CalledOnKey(key)
         /\ Uses(key, PositiveOperators)
         /\ cond_ret.condition.map[key].kind = "list") =>
            cond_ret.value =
                (\E i \in DOMAIN cond_ret.condition.map[key].items :
                     HoldsAlone(key, cond_ret.condition.map[key].items[i]))

\* whether the whole of s matches the glob p: `*` is any run of characters,
\* `?` any one character, every other character itself
RECURSIVE Glob(_, _)
Glob(p, s) ==
    IF p = <<>> THEN s = <<>>
    ELSE IF Head(p) = "*" THEN Glob(Tail(p), s) \/ (s # <<>> /\ Glob(p, Tail(s)))
    ELSE IF Head(p) = "?" THEN s # <<>> /\ Glob(Tail(p), Tail(s))
    ELSE s # <<>> /\ Head(s) = Head(p) /\ Glob(Tail(p), Tail(s))

\* C17: StringLike on a context string holds iff the string matches one of
\* the patterns as a glob, and StringNotLike iff it matches none.
C17_StringLikeIsGlob ==
    \A key \in (IF CalledOnMapping THEN DOMAIN cond_ret.condition.map ELSE {}) :
        LET context_val == DictGet(cond_context, FieldOf(key))
            patterns == AsList(cond_ret.condition.map[key])
            matches == \E i \in DOMAIN patterns : Glob(patterns[i].v, context_val.v)
        IN  (/\ CalledOnKey(key)
             /\ Uses(key, {"StringLike", "StringNotLike"})
             /\ context_val.kind = "str"
             /\ \A i \in DOMAIN patterns : patterns[i].kind = "str") =>
                cond_ret.value = (matches = Uses(key, {"StringLike"}))

\* C18: is_satisfied returns True or False and never raises, whatever the
\* context and the condition are, and leaves the context as it was; a key
\* whose evaluation raises counts as false.
C18_EvaluationIsTotal ==
    cond_ret.op = "is_satisfied" =>
        /\ cond_ret.raised = "none"
        /\ cond_ret.value \in BOOLEAN
        /\ cond_ret.context = cond_context
        /\ (/\ cond_ret.condition.kind = "dict"
            /\ \E key \in DOMAIN cond_ret.condition.map :
                   KeyBody(cond_context, key, cond_ret.condition.map[key]).raised # "none")
               => ~cond_ret.value

\* a call in which the evaluation of a key raised re.error
C18_Witness ==
    /\ CalledOnMapping
    /\ \E key \in DOMAIN cond_ret.condition.map :
           KeyBody(cond_context, key, cond_ret.condition.map[key]).raised = "re.error"
    /\ cond_ret.raised = "none"
    /\ ~cond_ret.value

(***************************************************************************)
(* Part IV.  AttackPathAnalyzer.score_path on its own: an analyzer over a   *)
(* graph of three nodes, asked to score node lists.  Specification         *)
(* ScoreSpec.                                                               *)
(***************************************************************************)
MaxPathLen == 13     \* nodes in the longest list scored

CriticalityChoices == { "critical", "high", "medium", "normal", "low" }

\* web and db carry a criticality; internet is a node only through its edges
ScoreNodes(web, db) == add_node(add_node(EmptyGraph, "web", web), "db", db)

NetworkEdge == [type |-> "network", rule_name |-> "r"]
IamEdge(cond) == [type |-> "iam", action |-> "s3:GetObject", condition |-> cond]

\* every edge a network edge
NetworkGraph(web, db) ==
    add_edge(add_edge(add_edge(ScoreNodes(web, db),
        "internet", "web", NetworkEdge),
        "web", "db", NetworkEdge),
        "db", "web", NetworkEdge)

\* IAM edges between web and db, one with a condition and one without
IamGraph(web, db) ==
    add_edge(add_edge(add_edge(ScoreNodes(web, db),
        "internet", "web", NetworkEdge),
        "web", "db", IamEdge(CondInternal)),
        "db", "web", IamEdge(None))

\* an IAM edge with an empty condition, one with no condition attribute, an
\* edge with no type, and a network edge overwritten by an IAM edge
MixedGraph(web, db) ==
    add_edge(add_edge(add_edge(add_edge(add_edge(ScoreNodes(web, db),
        "internet", "web", IamEdge(Dict(EmptyDict))),
        "web", "db", [type |-> "iam"]),
        "db", "web", [weight |-> 1]),
        "internet", "db", NetworkEdge),
        "internet", "db", IamEdge(CondBare))

ScoreGraphChoices ==
    UNION { { NetworkGraph(web, db), IamGraph(web, db), MixedGraph(web, db) } :
            web \in CriticalityChoices, db \in CriticalityChoices }

\* the walk of n nodes that starts at `first` and alternates with `second`
Walk(first, second, n) == [i \in 1..n |-> IF i % 2 = 1 THEN first ELSE second]

\* the node lists scored: every list of at most three names, and the walks
\* over the cycle web -> db -> web, with and without the step from internet
ScorePathChoices ==
    SeqsUpTo(Names, 3)
    \cup { Walk("web", "db", n) : n \in 4..MaxPathLen }
    \cup { Walk("db", "web", n) : n \in 4..MaxPathLen }
    \cup { <<"internet">> \o Walk("web", "db", n - 1) : n \in 4..MaxPathLen }

ScoreInit ==
    /\ firewall_rules = <<>>
    /\ iam_policies = <<>>
    /\ graph \in ScoreGraphChoices
    /\ exec_context = EmptyDict
    /\ max_depth = DefaultMaxDepth
    /\ path_cache = EmptyCache
    /\ total_paths_found = 0
    /\ paths_pruned = 0
    /\ evaluation_time = 0
    /\ ret = NoCall
    /\ IdleVerifier
    /\ IdleEvaluator
    /\ IdleScorer
    /\ IdleService

ScorePath(path) ==
    /\ ret' = [op |-> "score", path |-> path] @@ score_path(Self, path)
    /\ UNCHANGED <<firewall_rules, iam_policies, graph, exec_context, max_depth,
                   path_cache, total_paths_found, paths_pruned, evaluation_time>>
    /\ UNCHANGED <<verifier_vars, evaluator_vars, scorer_vars, service_vars>>

ScoreNext == \E path \in ScorePathChoices : ScorePath(path)

ScoreSpec == ScoreInit /\ [][ScoreNext]_vars

(***************************************************************************)
(* Properties of score_path                                                 *)
(***************************************************************************)
\* score_path was called and returned
ScoreReturned == ret.op = "score" /\ ret.raised = "none"

\* every step of the list is an edge of the graph
IsGraphPath(path) ==
    \A i \in 1..(Len(path) - 1) : <<path[i], path[i + 1]>> \in DOMAIN graph.edges

\* the steps of a graph path that are IAM edges, and those of them whose
\* edge has a non-empty condition
IamSteps(path) ==
    { i \in 1..(Len(path) - 1) :
        LET e == graph.edges[<<path[i], path[i + 1]>>]
        IN  "type" \in DOMAIN e /\ e.type = "iam" }

ConditionedSteps(path) ==
    { i \in IamSteps(path) :
        LET e == graph.edges[<<path[i], path[i + 1]>>]
        IN  /\ "condition" \in DOMAIN e
            /\ e.condition.kind = "dict"
            /\ DOMAIN e.condition.map # {} }

\* the criticality of the last node of the list
CriticalityOf(path) ==
    LET target == path[Len(path)]
    IN  IF target \in DOMAIN graph.criticality THEN graph.criticality[target]
        ELSE "normal"

CriticalityBonus(path) ==
    LET criticality == CriticalityOf(path)
    IN  IF criticality = "critical" THEN 40
        ELSE IF criticality = "high" THEN 30
        ELSE IF criticality = "medium" THEN 15
        ELSE 0

\* the sum of the parts of the score, before it is clamped
ScoreSum(path) ==
    10 + path_length_score(path) + CriticalityBonus(path)
       + 5 * Cardinality(IamSteps(path)) + 3 * Cardinality(ConditionedSteps(path))

\* C19: score_path returns 0 for a list of fewer than two nodes; for a path
\* of the graph it returns the smaller of 100 and the sum of 10, the length
\* bonus, the criticality bonus of the target, 5 per IAM step and 3 per IAM
\* step with a non-empty condition.  The length bonus lies between 0 and 25
\* and is not larger than that of any shorter prefix; the score lies between
\* 0 and 100.
C19_ScoreIsTheClampedSum ==
    ret.op = "score" =>
        /\ Len(ret.path) < 2 => (ret.raised = "none" /\ ret.score = 0)
        /\ (Len(ret.path) >= 2 /\ IsGraphPath(ret.path)) =>
               /\ ret.raised = "none"
               /\ ret.score = (IF ScoreSum(ret.path) < 100 THEN ScoreSum(ret.path)
                               ELSE 100)
               /\ path_length_score(ret.path) \in 0..25
               /\ \A n \in 2..Len(ret.path) :
                      path_length_score(ret.path)
                          <= path_length_score(SubSeq(ret.path, 1, n))
        /\ ret.raised = "none" => ret.score \in 0..100

\* a path over conditioned IAM steps whose sum exceeds 100
C19_Witness ==
    /\ ScoreReturned
    /\ Len(ret.path) >= 2
    /\ ConditionedSteps(ret.path) # {}
    /\ ScoreSum(ret.path) > 100
    /\ ret.score = 100

\* two scored paths that differ in nothing but their lengths
AllElseEqual(p, q) ==
    /\ CriticalityOf(p) = CriticalityOf(q)
    /\ Cardinality(IamSteps(p)) = Cardinality(IamSteps(q))
    /\ Cardinality(ConditionedSteps(p)) = Cardinality(ConditionedSteps(q))

\* the paths of the graph among the lists scored, with two nodes or more
GraphPaths == { q \in ScorePathChoices : Len(q) >= 2 /\ IsGraphPath(q) }

Float(tenths) == [kind |-> "float", tenths |-> tenths]

\* Python's `x or 0.0` for an Optional[float], in tenths
OrZero(x) == IF x = None \/ x.tenths = 0 THEN 0 ELSE x.tenths

MinOf(a, b) == IF a <= b THEN a ELSE b
MaxOf(a, b) == IF a >= b THEN a ELSE b

\* PathThreatScorer.WEIGHTS, in hundredths
WEIGHTS == [exploitability |-> 35, impact |-> 35, lineage |-> 20, confidence |-> 10]

\* _calculate_exploitability: path_length is len(path), the number of nodes
_calculate_exploitability(is_exploitable, path_length, has_auth_bypass, has_privesc) ==
    IF ~is_exploitable THEN 0
    ELSE LET reduced == 60 - MaxOf(0, (path_length - 1) * 5)
             floored == MaxOf(35, reduced)
             bypass  == IF has_auth_bypass THEN floored + 15 ELSE floored
             privesc == IF has_privesc THEN bypass + 10 ELSE bypass
         IN  MinOf(100, privesc)

\* _calculate_impact: the cap at 10.0 sits inside the `if cve_count > 0` branch
_calculate_impact(cvss_base_score, max_cve_score, cve_count) ==
    LET higher    == MaxOf(cvss_base_score, max_cve_score)
        max_score == IF higher = 0 THEN 50 ELSE higher
    IN  IF cve_count > 0
        THEN MinOf(100, max_score + MinOf(10, cve_count * 2))
        ELSE max_score

\* _calculate_lineage_score
_calculate_lineage_score(path) ==
    LET length == Len(path)
    IN  IF length <= 3 THEN 95 - (length - 1) * 5
        ELSE IF length <= 6 THEN 70 - (length - 3) * 5
        ELSE MaxOf(30, 60 - (length - 6) * 3)

\* a variant of _calculate_confidence that does not look at the verdict
_calculate_confidence_IgnoresVerdict(z3_confidence, is_exploitable) ==
    MinOf(100, z3_confidence * 10)

\* _calculate_confidence: z3_confidence in tenths, capped above only
_calculate_confidence(z3_confidence, is_exploitable) ==
    IF ~is_exploitable THEN 0 ELSE MinOf(100, z3_confidence * 10)

\* a variant of _score_to_threat_level that rates by the score's whole part
_score_to_threat_level_Truncating(score) ==
    IF score >= 9000000 THEN "Critical"
    ELSE IF score >= 7000000 THEN "High"
    ELSE IF score >= 4000000 THEN "Medium"
    ELSE IF score >= 1000000 THEN "Low"
    ELSE "Informational"

\* _score_to_threat_level: score in millionths, result the ThreatLevel value
_score_to_threat_level(score) ==
    IF score >= 9000000 THEN "Critical"
    ELSE IF score >= 7000000 THEN "High"
    ELSE IF score >= 4000000 THEN "Medium"
    ELSE IF score > 0 THEN "Low"
    ELSE "Informational"

\* the list a Python list literal and the appends build, one record per message
AppendIf(cond, list, item) == IF cond THEN Append(list, item) ELSE list

\* _generate_recommendations
_generate_recommendations(path, is_exploitable, cvss_score, cve_count) ==
    IF ~is_exploitable
    THEN << [msg |-> "No immediate action required - path not exploitable."] >>
    ELSE LET target == IF Len(path) > 0 THEN path[Len(path)] ELSE "unknown"
             r1 == AppendIf(Len(path) > 4, <<>>,
                            [msg |-> "Consider network segmentation: Break path by isolating",
                             node |-> path[(Len(path) \div 2) + 1]])
             r2 == AppendIf(target \in {"database", "secrets", "admin"}, r1,
                            [msg |-> "Increase access controls on", node |-> target])
             r3 == IF cve_count > 0
                   THEN Append(r2, [msg |-> "Review associated CVEs and apply patches",
                                    count |-> cve_count])
                   ELSE AppendIf(OrZero(cvss_score) >= 70, r2,
                                 [msg |-> "High CVSS score detected - prioritize remediation"])
         IN  Append(r3, [msg |-> "Implement detective controls (CloudTrail, VPC Flow Logs)"])

\* the float sum's distance from the exact sum, in millionths
Rounding == {0 - 1, 0, 1}

\* PathThreatScorer.score_path: the fields of the PathThreatScore it returns
PathThreatScorer_score_path(path, is_exploitable, cvss_base_score, z3_confidence, cve_count, max_cve_score, has_authentication_bypass, has_privilege_escalation, rounding) ==
    LET exploitability == _calculate_exploitability(is_exploitable, Len(path),
                              has_authentication_bypass, has_privilege_escalation)
        impact     == _calculate_impact(OrZero(cvss_base_score), OrZero(max_cve_score),
                                        cve_count)
        lineage    == _calculate_lineage_score(path)
        confidence == _calculate_confidence(z3_confidence, is_exploitable)
        weighted   == exploitability * WEIGHTS.exploitability
                      + impact * WEIGHTS.impact
                      + lineage * WEIGHTS.lineage
                      + confidence * WEIGHTS.confidence
        overall_score == MinOf(10000000, MaxOf(0, weighted * 1000 + rounding))
    IN  [overall_score        |-> overall_score,
         threat_level         |-> _score_to_threat_level(overall_score),
         exploitability_score |-> exploitability,
         impact_score         |-> impact,
         lineage_score        |-> lineage,
         confidence_score     |-> confidence,
         recommendations      |-> _generate_recommendations(path, is_exploitable,
                                      cvss_base_score, cve_count)]

(***************************************************************************)
(* Arguments of the scoring calls.                                         *)
(***************************************************************************)
MaxThreatLen == 17   \* nodes in the longest path scored

\* a path of n nodes ending at `target`
ThreatPath(n, target) == [i \in 1..n |-> IF i = n THEN target ELSE "hop"]

ThreatPathChoices ==
    {ThreatPath(n, target) : n \in 0..MaxThreatLen, target \in {"web", "database"}}

\* cvss_base_score: absent, zero, inside the CVSS range, and outside it
CvssChoices == {None, Float(0), Float(60), Float(98), Float(150), Float(0 - 20)}

\* max_cve_score
MaxCveChoices == {None, Float(75), Float(0 - 40)}

\* cve_count
CveCountChoices == {0, 1, 6}

\* z3_confidence, in tenths: 0.0, 0.5, 1.0 and two values outside [0, 1]
ConfidenceChoices == {0 - 5, 0, 5, 10, 20}

ThreatArgs ==
    [path : ThreatPathChoices, is_exploitable : BOOLEAN,
     cvss_base_score : CvssChoices, z3_confidence : ConfidenceChoices,
     cve_count : CveCountChoices, max_cve_score : MaxCveChoices,
     has_authentication_bypass : BOOLEAN, has_privilege_escalation : BOOLEAN]

ThreatInit ==
    /\ IdleAnalyzer
    /\ IdleVerifier
    /\ IdleEvaluator
    /\ IdleService
    /\ \E args \in ThreatArgs : threat_ret = [op |-> "call", args |-> args]

\* scorer.score_path(path, is_exploitable, ...) with the arguments drawn
ScoreThreat ==
    /\ threat_ret.op = "call"
    /\ \E rounding \in Rounding :
         LET a == threat_ret.args
         IN  threat_ret' =
               [op |-> "score_path", args |-> a,
                result |-> PathThreatScorer_score_path(a.path, a.is_exploitable,
                               a.cvss_base_score, a.z3_confidence, a.cve_count,
                               a.max_cve_score, a.has_authentication_bypass,
                               a.has_privilege_escalation, rounding)]
    /\ UNCHANGED <<analyzer_vars, verifier_vars, evaluator_vars, service_vars>>

ThreatNext == ScoreThreat

ThreatSpec == ThreatInit /\ [][ThreatNext]_vars

\* the last scoring call returned
ThreatScored == threat_ret.op = "score_path"

\* the inputs are inside the ranges the signature documents: CVSS scores in
\* [0, 10] or absent, z3_confidence in [0, 1]
DocumentedRanges(a) ==
    /\ a.cvss_base_score # None => a.cvss_base_score.tenths \in 0..100
    /\ a.max_cve_score # None => a.max_cve_score.tenths \in 0..100
    /\ a.z3_confidence \in 0..10

(***************************************************************************)
(* Properties of PathThreatScorer.                                         *)
(***************************************************************************)

\* C21: for every input of PathThreatScorer.score_path, each of the four
\* component values (Exploitability, Impact, Lineage, Confidence) lies in
\* [0, 10] and the overall score lies in [0, 10].
C21_ComponentsAndOverallInRange ==
    ThreatScored =>
        /\ threat_ret.result.exploitability_score \in 0..100
        /\ threat_ret.result.impact_score \in 0..100
        /\ threat_ret.result.lineage_score \in 0..100
        /\ threat_ret.result.confidence_score \in 0..100
        /\ threat_ret.result.overall_score \in 0..10000000

\* the hops of a path (a path of n nodes has n - 1 hops) beyond the first
HopsBeyondFirst(path) == MaxOf(0, (Len(path) - 1) - 1)

\* C22: Exploitability is 0 for a path that is not exploitable and otherwise
\* min(10, max(3.5, 6.0 - 0.5 * k) + 1.5 if auth bypass + 1.0 if privilege
\* escalation), k being the number of hops of the path beyond the first; a
\* single-hop exploitable path without flags has exploitability 6.0.
C22_ExploitabilityPerHopBeyondFirst ==
    ThreatScored =>
        LET a == threat_ret.args
            k == HopsBeyondFirst(a.path)
        IN  threat_ret.result.exploitability_score =
                IF ~a.is_exploitable THEN 0
                ELSE MinOf(100, MaxOf(35, 60 - 5 * k)
                                + (IF a.has_authentication_bypass THEN 15 ELSE 0)
                                + (IF a.has_privilege_escalation THEN 10 ELSE 0))

\* the same scoring call on another path
ScoredOn(path, rounding) ==
    LET a == threat_ret.args
    IN  PathThreatScorer_score_path(path, a.is_exploitable, a.cvss_base_score,
            a.z3_confidence, a.cve_count, a.max_cve_score,
            a.has_authentication_bypass, a.has_privilege_escalation, rounding)

\* C23: the Lineage component is inversely related to path length: a path
\* scores a strictly higher lineage than every longer path, and with all
\* other inputs equal the shorter exploitable path also gets the strictly
\* higher overall score.
C23_ShorterPathScoresStrictlyHigher ==
    (ThreatScored /\ DocumentedRanges(threat_ret.args)) =>
        \A longer \in ThreatPathChoices, rounding \in Rounding :
            Len(threat_ret.args.path) < Len(longer) =>
                /\ threat_ret.result.lineage_score
                       > ScoredOn(longer, rounding).lineage_score
                /\ threat_ret.args.is_exploitable =>
                       threat_ret.result.overall_score
                           > ScoredOn(longer, rounding).overall_score

\* the call was made on a path that is not exploitable
BlockedPathScored == ThreatScored /\ ~threat_ret.args.is_exploitable

\* neither a CVSS base score nor CVE data was given
NoVulnerabilityData(a) ==
    OrZero(a.cvss_base_score) = 0 /\ OrZero(a.max_cve_score) = 0 /\ a.cve_count = 0

NoActionRequired == << [msg |-> "No immediate action required - path not exploitable."] >>

\* C24 as stated: a path scored with is_exploitable = false has
\* exploitability 0 and confidence 0, is rated Informational or Low and never
\* Medium or above for any CVSS/CVE inputs and any path length, and its
\* recommendations are the single no-action message.
C24_BlockedPathNeverMediumOrAbove ==
    BlockedPathScored =>
        /\ threat_ret.result.exploitability_score = 0
        /\ threat_ret.result.confidence_score = 0
        /\ threat_ret.result.threat_level \in {"Informational", "Low"}
        /\ threat_ret.result.recommendations = NoActionRequired

\* C24, amended: a path scored with is_exploitable = false has exploitability
\* 0 and confidence 0 and the single no-action recommendation, for every
\* input; it is rated Informational or Low when no CVSS/CVE data is given,
\* and with CVSS scores inside [0, 10] it is rated at most Medium, its
\* overall score being 0.35 * impact + 0.2 * lineage up to rounding.
C24_BlockedPathRatedByImpact ==
    BlockedPathScored =>
        LET a == threat_ret.args
            r == threat_ret.result
        IN  /\ r.exploitability_score = 0
            /\ r.confidence_score = 0
            /\ r.recommendations = NoActionRequired
            /\ NoVulnerabilityData(a) => r.threat_level \in {"Informational", "Low"}
            /\ DocumentedRanges(a) =>
                   /\ r.threat_level \in {"Informational", "Low", "Medium"}
                   /\ \E rounding \in Rounding :
                          r.overall_score =
                              (35 * r.impact_score + 20 * r.lineage_score) * 1000 + rounding

\* a blocked 2-node path with CVSS base score 9.8 and no CVEs, rated Medium
C24_Witness ==
    /\ BlockedPathScored
    /\ Len(threat_ret.args.path) = 2
    /\ threat_ret.args.cvss_base_score = Float(98)
    /\ threat_ret.args.cve_count = 0
    /\ threat_ret.result.threat_level = "Medium"
    /\ threat_ret.result.recommendations = NoActionRequired

\* C25: the threat level is a function of the clamped overall score alone:
\* Critical iff score >= 9.0, High iff 7.0 <= score < 9.0, Medium iff
\* 4.0 <= score < 7.0, Low iff 0 < score < 4.0, Informational iff score = 0.
C25_ThreatLevelFollowsTheScore ==
    ThreatScored =>
        LET score == threat_ret.result.overall_score
            level == threat_ret.result.threat_level
        IN  /\ score \in 0..10000000
            /\ (level = "Critical") <=> (score >= 9000000)
            /\ (level = "High") <=> (7000000 <= score /\ score < 9000000)
            /\ (level = "Medium") <=> (4000000 <= score /\ score < 7000000)
            /\ (level = "Low") <=> (0 < score /\ score < 4000000)
            /\ (level = "Informational") <=> (score = 0)

\* a call whose overall score is exactly 7.0, rated High
C25_Witness ==
    /\ ThreatScored
    /\ threat_ret.result.overall_score = 7000000
    /\ threat_ret.result.threat_level = "High"

(***************************************************************************)
(* Part VI.  The metrics and the cache of AttackPathAnalyzer over          *)
(* sequences of find_attack_paths, clear_cache and get_metrics, with the   *)
(* clock of evaluation_time running.                                       *)
(***************************************************************************)
MaxTicks == 2    \* calls are made while evaluation_time stays at most this

\* the time an enumeration takes, in clock ticks
ElapsedChoices == {0, 1}

\* an analyzer over a graph with network and IAM edges, some conditioned
MetricsInit ==
    /\ firewall_rules \in { <<R1, R2, R3>>, <<R1, R4>> }
    /\ iam_policies \in { <<>>, <<Policy("Allow", "web", "db", CondInternal)>>,
                          <<Policy("Allow", "internet", "db", CondBare)>> }
    /\ graph = build_graph(firewall_rules, iam_policies)
    /\ exec_context \in ContextChoices
    /\ max_depth = DefaultMaxDepth
    /\ path_cache = EmptyCache
    /\ total_paths_found = 0
    /\ paths_pruned = 0
    /\ evaluation_time = 0
    /\ ret = NoCall
    /\ IdleVerifier
    /\ IdleEvaluator
    /\ IdleScorer
    /\ IdleService

\* find_attack_paths with the clock running
TimedFindAttackPaths(source, target, use_cache, trivial, elapsed) ==
    /\ evaluation_time + elapsed <= MaxTicks
    /\ FindAttackPaths(source, target, use_cache, trivial, elapsed)

\* get_metrics(): reads the analyzer and changes nothing
GetMetrics ==
    /\ Store(Self)
    /\ ret' = [op |-> "metrics", metrics |-> get_metrics(Self)]

MetricsNext ==
    \/ \E q \in QueryChoices, use_cache \in BOOLEAN, trivial \in BOOLEAN,
          elapsed \in ElapsedChoices :
           TimedFindAttackPaths(q[1], q[2], use_cache, trivial, elapsed)
    \/ ClearCache
    \/ GetMetrics

MetricsSpec == MetricsInit /\ [][MetricsNext]_vars

\* C26: clear_cache empties the path cache, so get_metrics reports
\* cache_size = 0 right after it, and leaves the cumulative counters
\* total_paths_found, paths_pruned and evaluation_time unchanged; the next
\* find_attack_paths for a previously cached key recomputes the result.
C26_ClearCacheEmptiesOnlyTheCache ==
    [][ /\ ret'.op = "clear" =>
              /\ path_cache' = EmptyCache
              /\ get_metrics(Self)'.cache_size = 0
              /\ total_paths_found' = total_paths_found
              /\ paths_pruned' = paths_pruned
              /\ evaluation_time' = evaluation_time
        /\ (ret.op = "clear" /\ ret'.op = "metrics") =>
              /\ ret'.metrics.cache_size = 0
              /\ ret'.metrics.total_paths_found = total_paths_found
              /\ ret'.metrics.paths_pruned = paths_pruned
              /\ ret'.metrics.evaluation_time = evaluation_time
        /\ (ret.op = "clear" /\ ret'.op = "find" /\ ret'.raised = "none") =>
              /\ ~ret'.cache_hit
              /\ total_paths_found' = total_paths_found + Len(ret'.paths)
              /\ paths_pruned' = paths_pruned + ret'.rejected
        /\ (ret'.op = "find" /\ ret'.raised = "none" /\ ret'.cache_hit) =>
              <<ret'.source, ret'.target>> \in DOMAIN path_cache
      ]_vars

\* clear_cache has just dropped a non-empty cache of an analyzer whose three
\* counters are all positive
C26_Witness ==
    /\ ret.op = "clear" /\ ret.dropped > 0
    /\ path_cache = EmptyCache
    /\ total_paths_found > 0 /\ paths_pruned > 0 /\ evaluation_time > 0

\* the enumerated paths of a fresh search that do not pass validation
RejectedPaths(G, context, s, t, d) ==
    IF s = t THEN {}
    ELSE { p \in SimplePaths(G, s, t, d) : ~Accepted(G, context, p) }

\* C28: over any sequence of find_attack_paths and clear_cache calls on one
\* analyzer, a successful call that misses the cache (or has use_cache =
\* false) increases total_paths_found by the number of returned paths and
\* paths_pruned by the number of enumerated paths that were rejected; cache
\* hits, NodeNotFound failures and clear_cache change neither counter; the
\* counters never decrease; a call with use_cache = false never adds or
\* replaces a cache entry; cache_size is the number of distinct (source,
\* target) keys stored since the last clear.
C28_MetricsAccounting ==
    [][ LET key == <<ret'.source, ret'.target>>
            fresh == ret'.op = "find" /\ ret'.raised = "none" /\ ~ret'.cache_hit
        IN  /\ fresh =>
                  /\ total_paths_found' = total_paths_found + Len(ret'.paths)
                  /\ paths_pruned' = paths_pruned
                         + Cardinality(RejectedPaths(graph, exec_context, ret'.source,
                                                     ret'.target, max_depth))
                  /\ ~ret'.use_cache \/ key \notin DOMAIN path_cache
            /\ ~fresh =>
                  /\ total_paths_found' = total_paths_found
                  /\ paths_pruned' = paths_pruned
            /\ total_paths_found' >= total_paths_found
            /\ paths_pruned' >= paths_pruned
            /\ (ret'.op = "find" /\ ~ret'.use_cache) => path_cache' = path_cache
            /\ get_metrics(Self)'.cache_size = Cardinality(DOMAIN path_cache')
            /\ DOMAIN path_cache' =
                   IF ret'.op = "clear" THEN {}
                   ELSE IF fresh /\ ret'.use_cache THEN DOMAIN path_cache \cup {key}
                   ELSE DOMAIN path_cache
            /\ ret'.op = "metrics" =>
                  ret'.metrics.cache_size = Cardinality(DOMAIN path_cache)
      ]_vars

\* after two searches were stored under different keys, a search with
\* use_cache = false has added to both counters and left the cache alone
C28_Witness ==
    /\ FreshFind /\ ~ret.use_cache
    /\ ret.paths # <<>> /\ ret.rejected > 0
    /\ total_paths_found > Len(ret.paths)
    /\ get_metrics(Self).cache_size = 2
    /\ <<ret.source, ret.target>> \in DOMAIN path_cache

(***************************************************************************)
(* Part VII.  The asynchronous analysis job (src/src/api.py).              *)
(*                                                                         *)
(* analyze_async commits an AnalysisJob row and schedules                  *)
(* _run_analysis_background, which commits three times: status "running",  *)
(* then status "completed" with the counters, then the AttackPath rows.    *)
(* `job` and `attack_paths` are the committed rows, which is what every    *)
(* other database session sees; `task` is the background task's position   *)
(* with its local `paths`.  The task runs between its commits without      *)
(* yielding to the event loop of its own process, so the readers that can  *)
(* run between two commits are those served by another worker process (or  *)
(* any other client) of the same database.  The analyzer variables are the *)
(* AttackPathAnalyzer the task builds.  A database operation of the task   *)
(* either goes through or raises; so does the except branch's own query    *)
(* and commit.  explain_path's text is left out of the AttackPath rows.    *)
(***************************************************************************)

\* what the database does to the task's next operation and, if an exception
\* is raised, to the except branch's query and commit
DbChoices == [commit_ok : BOOLEAN, handler_ok : BOOLEAN]

\* AnalysisJob(...) as committed by analyze_async, with the column defaults
NewJob(source, target) ==
    [source_node |-> source, target_node |-> target, status |-> "pending",
     total_paths_found |-> 0, paths_pruned |-> 0, error_message |-> None]

\* the except branch of _run_analysis_background: the job row afterwards
Handler(row, e, db) ==
    IF db.handler_ok /\ row # None
    THEN [row EXCEPT !.status = "failed", !.error_message = Str(<<e>>)]
    ELSE row

\* the AttackPath rows built by the "Save paths" loop
SaveRows(self, paths) ==
    [i \in DOMAIN paths |->
        [path_nodes |-> paths[i], path_length |-> Len(paths[i]),
         risk_score |-> score_path(self, paths[i]).score]]

\* score_path raised in the loop
SaveRaises(self, paths) ==
    \E i \in DOMAIN paths : score_path(self, paths[i]).raised # "none"

JobInit ==
    /\ firewall_rules \in { <<R1, R2, R3>>, <<R1, R4>> }
    /\ iam_policies \in { <<>>, <<Policy("Allow", "web", "db", CondInternal)>>,
                          <<Policy("Allow", "internet", "db", CondBare)>> }
    /\ graph = build_graph(firewall_rules, iam_policies)
    /\ exec_context \in ContextChoices
    /\ max_depth = DefaultMaxDepth
    /\ path_cache = EmptyCache
    /\ total_paths_found = 0
    /\ paths_pruned = 0
    /\ evaluation_time = 0
    /\ ret = NoCall
    /\ IdleVerifier
    /\ IdleEvaluator
    /\ IdleScorer
    /\ IdleService

\* POST /api/v1/analyze/async
AnalyzeAsync(source, target) ==
    /\ job = None
    /\ job' = NewJob(source, target)
    /\ task' = [pc |-> "scheduled"]
    /\ UNCHANGED <<attack_paths, observed>>
    /\ UNCHANGED <<analyzer_vars, verifier_vars, evaluator_vars, scorer_vars>>

\* _run_analysis_background up to its first commit
StartJob(db) ==
    /\ task.pc = "scheduled"
    /\ IF job = None
       THEN job' = job /\ task' = [pc |-> "returned"]
       ELSE IF db.commit_ok
       THEN job' = [job EXCEPT !.status = "running"] /\ task' = [pc |-> "running"]
       ELSE job' = Handler(job, "OperationalError", db) /\ task' = [pc |-> "raised"]
    /\ UNCHANGED <<attack_paths, observed>>
    /\ UNCHANGED <<analyzer_vars, verifier_vars, evaluator_vars, scorer_vars>>

\* the job update after find_attack_paths gave r: the job row and the
\* task's position afterwards
Analysed(row, r, db) ==
    IF r.ret.raised # "none"
    THEN [job |-> Handler(row, r.ret.raised, db), task |-> [pc |-> "raised"]]
    ELSE IF db.commit_ok
    THEN [job |-> [row EXCEPT
                      !.status = "completed",
                      !.total_paths_found = get_metrics(r.self).total_paths_found,
                      !.paths_pruned = get_metrics(r.self).paths_pruned],
          task |-> [pc |-> "saving", paths |-> r.ret.paths]]
    ELSE [job |-> Handler(row, "OperationalError", db), task |-> [pc |-> "raised"]]

StoreAnalysed(r, db) ==
    /\ StoreFields(r.self)
    /\ ret' = r.ret
    /\ job' = Analysed(job, r, db).job
    /\ task' = Analysed(job, r, db).task

\* from the first commit to the second: the analysis and the job update
RunAnalysis(trivial, db) ==
    /\ task.pc = "running"
    /\ trivial => job.source_node = job.target_node
    /\ StoreAnalysed(find_attack_paths(Self, job.source_node, job.target_node, TRUE,
                                       trivial, 0), db)
    /\ UNCHANGED <<attack_paths, observed>>
    /\ UNCHANGED <<verifier_vars, evaluator_vars, scorer_vars>>

\* from the second commit to the end: the AttackPath rows and their commit
SavePaths(db) ==
    /\ task.pc = "saving"
    /\ IF SaveRaises(Self, task.paths)
       THEN /\ job' = Handler(job, "AttributeError", db)
            /\ task' = [pc |-> "raised"]
            /\ UNCHANGED attack_paths
       ELSE IF db.commit_ok
       THEN /\ attack_paths' = attack_paths \o SaveRows(Self, task.paths)
            /\ task' = [pc |-> "done"]
            /\ UNCHANGED job
       ELSE /\ job' = Handler(job, "OperationalError", db)
            /\ task' = [pc |-> "raised"]
            /\ UNCHANGED attack_paths
    /\ UNCHANGED observed
    /\ UNCHANGED <<analyzer_vars, verifier_vars, evaluator_vars, scorer_vars>>

\* GET /api/v1/jobs/{job_id}/paths and the WebSocket poll loop: the query
\* for the job
ReadJob ==
    /\ observed.pc \in {"idle", "response"}
    /\ observed' = IF job = None
                   THEN [pc |-> "response", status |-> "not found", paths |-> <<>>]
                   ELSE [pc |-> "job", status |-> job.status]
    /\ UNCHANGED <<job, attack_paths, task>>
    /\ UNCHANGED <<analyzer_vars, verifier_vars, evaluator_vars, scorer_vars>>

\* the reader's query for the AttackPath rows and its response
ReadPaths ==
    /\ observed.pc = "job"
    /\ observed' = [pc |-> "response", status |-> observed.status,
                    paths |-> [i \in DOMAIN attack_paths |-> attack_paths[i].path_nodes]]
    /\ UNCHANGED <<job, attack_paths, task>>
    /\ UNCHANGED <<analyzer_vars, verifier_vars, evaluator_vars, scorer_vars>>

JobNext ==
    \/ \E q \in QueryChoices : AnalyzeAsync(q[1], q[2])
    \/ \E db \in DbChoices : StartJob(db)
    \/ \E trivial \in BOOLEAN, db \in DbChoices : RunAnalysis(trivial, db)
    \/ \E db \in DbChoices : SavePaths(db)
    \/ ReadJob
    \/ ReadPaths

JobSpec == JobInit /\ [][JobNext]_vars

\* C29: whenever a concurrent reader observes the job's status as completed,
\* every attack path found by that job's analysis is already persisted, so
\* the reader returns the complete path list.
C29_CompletedJobHasAllItsPaths ==
    (observed.pc = "response" /\ observed.status = "completed") =>
        observed.paths = ret.paths

\* the status changes a job may make
ForwardMoves ==
    { <<"pending", "running">>, <<"running", "completed">>, <<"running", "failed">> }

\* C30: a job's status only moves forward along pending -> running ->
\* completed or pending -> running -> failed; completed and failed are
\* terminal, so a job once observed as completed is never later observed as
\* failed; error_message is set only on jobs that never reached completed.
C30_StatusOnlyMovesForward ==
    [][ (job # None /\ job' # job) =>
            /\ job' # None
            /\ job'.status # job.status => <<job.status, job'.status>> \in ForwardMoves
            /\ job.status \notin {"completed", "failed"}
            /\ job'.error_message # job.error_message => job.status # "completed"
      ]_vars

====
